---- MODULE Spec2Model ----
(***************************************************************************)
(* A model of the agent-ping gateway core: the inbound pipeline            *)
(* (handle_inbound), the message / session / outbox store (db.rs) and the  *)
(* outbox worker with its retry backoff (outbox.rs).                       *)
(*                                                                         *)
(* Text is modelled as a sequence of one-character strings, so that the    *)
(* code's format!() calls are concatenations and trim / lowercase work on  *)
(* characters.  Option<T> is a sequence of length 0 (None) or 1 (Some).    *)
(* Time is the wall clock in milliseconds; the store keeps whole seconds,  *)
(* as datetime_to_i64 does.                                                *)
(***************************************************************************)
EXTENDS Integers, Sequences, FiniteSets, TLC

\* ------------------------------------------------------------------ bounds
\* number of handle_inbound invocations in a run
MaxInbound == 2
\* number of POSTs the backend may answer with a failure in a run of Spec
MaxFailures == 2
\* the same in a run of SpecRetry, which follows one item up the retry ladder
MaxRetryFailures == 11
\* invocations, and failed POSTs and status writes, in a run of SpecStuck
StuckInbound == 2
StuckFailures == 1
\* the wall clock may advance in half-second ticks while below this (ms)
TickLimit == 500
\* compute_backoff is evaluated on the retry counts -BackoffRange..BackoffRange
BackoffRange == 60
\* number of handle_outbound invocations in a run
MaxOutbound == 1
\* number of commands a subscriber sends, and of events published on the
\* broadcast channel in a run
MaxCommands == 3
MaxPublished == 2
\* number of bindings in the configuration given to resolve_binding
MaxBindings == 3
\* number of updates Telegram receives for the bot in a run
MaxUpdates == 3
\* claim_outbox_batch is called on tables of ClaimRows rows, with limits 0..MaxClaimLimit
ClaimRows == 3
MaxClaimLimit == 2

\* ------------------------------------------------- program constants
OUTBOX_BATCH == 25
OUTBOX_MAX_RETRIES == 10
BACKOFF_BASE_SECONDS == 5
BACKOFF_CAP_SECONDS == 300
BACKOFF_MAX_EXPONENT == 8
PARK_SECONDS == 3600
DEFAULT_DEBOUNCE_MS == 1000
WS_CAPACITY == 100
MsPerSecond == 1000

\* ------------------------------------------------------------ Option, text
None == <<>>
Some(x) == <<x>>
IsSome(o) == Len(o) = 1
Unwrap(o) == o[1]

Colon == <<":">>

UpperCase == <<"A", "B", "C", "D", "E", "F", "G", "H", "I", "J", "K", "L", "M", "N", "O", "P", "Q", "R", "S", "T", "U", "V", "W", "X", "Y", "Z">>
LowerCase == <<"a", "b", "c", "d", "e", "f", "g", "h", "i", "j", "k", "l", "m", "n", "o", "p", "q", "r", "s", "t", "u", "v", "w", "x", "y", "z">>

\* char::to_lowercase on the ASCII letters
LowerChar(c) ==
    IF \E i \in 1..Len(UpperCase) : UpperCase[i] = c
    THEN LowerCase[CHOOSE i \in 1..Len(UpperCase) : UpperCase[i] = c]
    ELSE c

\* char::is_whitespace on the characters of the texts used here
IsSpace(c) == c \in {" ", "\t", "\n"}

RECURSIVE TrimStart(_)
TrimStart(s) ==
    IF s # <<>> /\ IsSpace(Head(s)) THEN TrimStart(Tail(s)) ELSE s

RECURSIVE TrimEnd(_)
TrimEnd(s) ==
    IF s # <<>> /\ IsSpace(s[Len(s)]) THEN TrimEnd(SubSeq(s, 1, Len(s) - 1)) ELSE s

ToLowercase(s) == [i \in 1..Len(s) |-> LowerChar(s[i])]

normalize_token(value) == ToLowercase(TrimEnd(TrimStart(value)))

\* text literals of the code
T_agent == <<"a", "g", "e", "n", "t">>
T_dm == <<"d", "m">>
T_main == <<"m", "a", "i", "n">>
T_default == <<"d", "e", "f", "a", "u", "l", "t">>
T_thread == <<"t", "h", "r", "e", "a", "d">>
T_per_peer == <<"p", "e", "r", "-", "p", "e", "e", "r">>
T_per_channel_peer == <<"p", "e", "r", "-", "c", "h", "a", "n", "n", "e", "l", "-", "p", "e", "e", "r">>
T_per_account_channel_peer ==
    <<"p", "e", "r", "-", "a", "c", "c", "o", "u", "n", "t", "-", "c", "h", "a", "n", "n", "e", "l", "-", "p", "e", "e", "r">>
T_channel == <<"c", "h", "a", "n", "n", "e", "l">>
T_slack == <<"s", "l", "a", "c", "k">>

\* ------------------------------------------------------------ session.rs
\* The identity-link table is a map canonical name -> list of aliases.  The
\* code returns the first match in the map's iteration order, which HashMap
\* leaves unspecified: the operator yields every result some order gives.
LinkMatches(links, channel, peer_id) ==
    LET peer_norm == normalize_token(peer_id)
        channel_norm == normalize_token(channel)
        scoped == IF channel_norm = <<>> THEN peer_norm
                  ELSE channel_norm \o Colon \o peer_norm
    IN  { canonical \in DOMAIN links :
            \E i \in 1..Len(links[canonical]) :
                LET v == normalize_token(links[canonical][i])
                IN  v = peer_norm \/ v = scoped }

\* a resolver that returns the canonical name as it is written in the table
resolve_identity_link_as_written(links, channel, peer_id) ==
    IF normalize_token(peer_id) = <<>> THEN {None}
    ELSE IF LinkMatches(links, channel, peer_id) = {} THEN {None}
    ELSE { Some(c) : c \in LinkMatches(links, channel, peer_id) }

resolve_identity_link(links, channel, peer_id) ==
    IF normalize_token(peer_id) = <<>> THEN {None}
    ELSE IF LinkMatches(links, channel, peer_id) = {} THEN {None}
    ELSE { Some(normalize_token(c)) : c \in LinkMatches(links, channel, peer_id) }

\* a key builder that appends the thread suffix whenever a thread id is given
build_session_key_thread_always(cfg, channel_in, account_in, peer_kind, peer_in, thread_id) ==
    LET agent_id == normalize_token(cfg.agent_id)
        main_key == normalize_token(cfg.main_key)
        channel == normalize_token(channel_in)
        peer_id == normalize_token(peer_in)
        account_id == IF IsSome(account_in) THEN normalize_token(Unwrap(account_in))
                      ELSE T_default
        dm_scope == cfg.dm_scope
        key_peers ==
            IF dm_scope # T_main /\ DOMAIN cfg.identity_links # {}
            THEN { IF IsSome(r) THEN Unwrap(r) ELSE peer_id :
                     r \in resolve_identity_link(cfg.identity_links, channel, peer_id) }
            ELSE {peer_id}
        base == T_agent \o Colon \o agent_id \o Colon \o channel \o Colon
                    \o peer_kind \o Colon \o peer_id
    IN  IF peer_kind = T_dm
        THEN { CASE dm_scope = T_per_peer ->
                      T_agent \o Colon \o agent_id \o Colon \o T_dm \o Colon \o key_peer
                 [] dm_scope = T_per_channel_peer ->
                      T_agent \o Colon \o agent_id \o Colon \o channel \o Colon
                          \o T_dm \o Colon \o key_peer
                 [] dm_scope = T_per_account_channel_peer ->
                      T_agent \o Colon \o agent_id \o Colon \o channel \o Colon
                          \o account_id \o Colon \o T_dm \o Colon \o key_peer
                 [] OTHER -> T_agent \o Colon \o agent_id \o Colon \o main_key
               : key_peer \in key_peers }
        ELSE IF IsSome(thread_id)
             THEN { base \o Colon \o T_thread \o Colon \o normalize_token(Unwrap(thread_id)) }
             ELSE { base }

build_session_key(cfg, channel_in, account_in, peer_kind, peer_in, thread_id) ==
    LET agent_id == normalize_token(cfg.agent_id)
        main_key == normalize_token(cfg.main_key)
        channel == normalize_token(channel_in)
        peer_id == normalize_token(peer_in)
        account_id == IF IsSome(account_in) THEN normalize_token(Unwrap(account_in))
                      ELSE T_default
        dm_scope == cfg.dm_scope
        key_peers ==
            IF dm_scope # T_main /\ DOMAIN cfg.identity_links # {}
            THEN { IF IsSome(r) THEN Unwrap(r) ELSE peer_id :
                     r \in resolve_identity_link(cfg.identity_links, channel, peer_id) }
            ELSE {peer_id}
        base == T_agent \o Colon \o agent_id \o Colon \o channel \o Colon
                    \o peer_kind \o Colon \o peer_id
    IN  IF peer_kind = T_dm
        THEN { CASE dm_scope = T_per_peer ->
                      T_agent \o Colon \o agent_id \o Colon \o T_dm \o Colon \o key_peer
                 [] dm_scope = T_per_channel_peer ->
                      T_agent \o Colon \o agent_id \o Colon \o channel \o Colon
                          \o T_dm \o Colon \o key_peer
                 [] dm_scope = T_per_account_channel_peer ->
                      T_agent \o Colon \o agent_id \o Colon \o channel \o Colon
                          \o account_id \o Colon \o T_dm \o Colon \o key_peer
                 [] OTHER -> T_agent \o Colon \o agent_id \o Colon \o main_key
               : key_peer \in key_peers }
        ELSE IF IsSome(thread_id) /\ normalize_token(Unwrap(thread_id)) # <<>>
             THEN { base \o Colon \o T_thread \o Colon \o normalize_token(Unwrap(thread_id)) }
             ELSE { base }

\* ------------------------------------------------------- lib.rs bindings
BindingCandidate(b, channel, account_id, peer_id) ==
    /\ b.channel = channel
    /\ (IsSome(b.account_id) => account_id = b.account_id)
    /\ (IsSome(b.peer_id) => peer_id = b.peer_id)

BindingScore(b) ==
    (IF IsSome(b.account_id) THEN 2 ELSE 0) + (IF IsSome(b.peer_id) THEN 2 ELSE 0)

NoBindingMatch == [business_profile_id |-> None, user_id |-> None, agent_id |-> None]

RECURSIVE BestBinding_last_wins(_, _, _, _, _, _)
\* a loop that replaces the best binding by a later one of the same score
BestBinding_last_wins(bindings, channel, account_id, peer_id, i, best) ==
    IF i > Len(bindings) THEN best
    ELSE IF ~BindingCandidate(bindings[i], channel, account_id, peer_id)
         THEN BestBinding_last_wins(bindings, channel, account_id, peer_id, i + 1, best)
         ELSE IF best = <<>> \/ BindingScore(bindings[i]) >= best[1]
              THEN BestBinding_last_wins(bindings, channel, account_id, peer_id, i + 1,
                                         <<BindingScore(bindings[i]), i>>)
              ELSE BestBinding_last_wins(bindings, channel, account_id, peer_id, i + 1,
                                         best)

RECURSIVE BestBinding(_, _, _, _, _, _)
\* the loop of resolve_binding from index i on, best = <<>> or <<score, index>>
BestBinding(bindings, channel, account_id, peer_id, i, best) ==
    IF i > Len(bindings) THEN best
    ELSE IF ~BindingCandidate(bindings[i], channel, account_id, peer_id)
         THEN BestBinding(bindings, channel, account_id, peer_id, i + 1, best)
         ELSE IF best = <<>> \/ BindingScore(bindings[i]) > best[1]
              THEN BestBinding(bindings, channel, account_id, peer_id, i + 1,
                               <<BindingScore(bindings[i]), i>>)
              ELSE BestBinding(bindings, channel, account_id, peer_id, i + 1, best)

resolve_binding(bindings, channel, account_id, peer_id) ==
    LET best == BestBinding(bindings, channel, account_id, peer_id, 1, <<>>)
    IN  IF best # <<>>
        THEN [business_profile_id |-> bindings[best[2]].business_profile_id,
              user_id |-> bindings[best[2]].user_id,
              agent_id |-> bindings[best[2]].agent_id]
        ELSE NoBindingMatch

\* ------------------------------------------------------------- outbox.rs
Max(a, b) == IF a >= b THEN a ELSE b
Min(a, b) == IF a <= b THEN a ELSE b

RECURSIVE Pow2(_)
Pow2(n) == IF n <= 0 THEN 1 ELSE 2 * Pow2(n - 1)

\* a backoff whose exponent is the retry count itself
compute_backoff_no_decrement(retry_count) ==
    LET exponent == Min(Max(retry_count, 1), BACKOFF_MAX_EXPONENT)
        base == Pow2(exponent)
    IN  Min(base * BACKOFF_BASE_SECONDS, BACKOFF_CAP_SECONDS)

\* a backoff that stops doubling before it reaches the cap
compute_backoff_early_stop(retry_count) ==
    LET exponent == Min(Max(retry_count, 1) - 1, BACKOFF_MAX_EXPONENT - 3)
        base == Pow2(exponent)
    IN  Min(base * BACKOFF_BASE_SECONDS, BACKOFF_CAP_SECONDS)

\* the delay in seconds
compute_backoff(retry_count) ==
    LET exponent == Min(Max(retry_count, 1) - 1, BACKOFF_MAX_EXPONENT)
        base == Pow2(exponent)
    IN  Min(base * BACKOFF_BASE_SECONDS, BACKOFF_CAP_SECONDS)

\* a test that takes every status from 200 up for a success
is_success_from_200(status) == status >= 200

\* reqwest's StatusCode::is_success
is_success(status) == status >= 200 /\ status <= 299

\* what a POST to the backend webhook can come back with: Some(status), or
\* None when reqwest's send() returns Err (no response at all)
HttpStatuses == {200, 500}
Responses == {None} \cup { Some(st) : st \in HttpStatuses }

\* the backend's side: it took the POST and answered with a 2xx status
Answered2xx(resp) == IsSome(resp) /\ Unwrap(resp) \in 200..299

\* dispatch_row lines 74-78: send() returned a response and its status is a success
DispatchOk(resp) == IsSome(resp) /\ is_success(Unwrap(resp))

\* the text of the anyhow error dispatch_row returns
DispatchError(resp) ==
    IF IsSome(resp) THEN <<"backend webhook failed", Unwrap(resp)>>
    ELSE <<"error sending request">>

\* ------------------------------------------------------------------ db.rs
datetime_to_i64(dt) == dt \div MsPerSecond
i64_to_datetime(ts) == ts * MsPerSecond

\* an UPSERT that leaves the last_route of an existing row as it was
upsert_session_keep_route(table, record) ==
    LET key == record.session_key
        row == IF key \in DOMAIN table
               THEN [record EXCEPT !.created_at = table[key].created_at,
                                   !.last_route = table[key].last_route]
               ELSE record
    IN  [k \in DOMAIN table \cup {key} |-> IF k = key THEN row ELSE table[k]]

\* UPSERT of sessions: ON CONFLICT(session_key) every column but session_key
\* and created_at takes the new record's value
upsert_session(table, record) ==
    LET key == record.session_key
        row == IF key \in DOMAIN table
               THEN [record EXCEPT !.created_at = table[key].created_at]
               ELSE record
    IN  [k \in DOMAIN table \cup {key} |-> IF k = key THEN row ELSE table[k]]

insert_message(table, record) == Append(table, record)

\* a check that compares the stored Option with the bare key
message_dedupe_exists_bare(table, dedupe_key) ==
    \E i \in 1..Len(table) : table[i].dedupe_key = dedupe_key

message_dedupe_exists(table, dedupe_key) ==
    \E i \in 1..Len(table) : table[i].dedupe_key = Some(dedupe_key)

\* the row insert_outbox writes; the id stands for the fresh UUID
NewOutboxRecord(id, payload, next_attempt_at, now) ==
    [id |-> id, payload |-> payload, status |-> "pending", retry_count |-> 0,
     next_attempt_at |-> datetime_to_i64(next_attempt_at), last_error |-> None,
     created_at |-> datetime_to_i64(now)]

insert_outbox(table, payload, next_attempt_at, now) ==
    Append(table, NewOutboxRecord(Len(table) + 1, payload, next_attempt_at, now))

\* a filter that takes new items only
Eligible_pending_only(row, now) ==
    /\ row.status = "pending"
    /\ row.next_attempt_at <= datetime_to_i64(now)

\* a filter that looks at the due time only
Eligible_any_status(row, now) == row.next_attempt_at <= datetime_to_i64(now)

\* WHERE status IN ('pending','failed') AND next_attempt_at <= ?
Eligible(row, now) ==
    /\ row.status \in {"pending", "failed"}
    /\ row.next_attempt_at <= datetime_to_i64(now)

EligibleIds(table, now) == { i \in 1..Len(table) : Eligible(table[i], now) }

IsInjective(s) == \A i, j \in 1..Len(s) : s[i] = s[j] => i = j

\* a SELECT with the LIMIT but no ORDER BY
ClaimSelections_unordered(table, now, limit) ==
    LET ids == EligibleIds(table, now)
        n == Min(limit, Cardinality(ids))
    IN  { s \in [1..n -> ids] : IsInjective(s) }

\* ORDER BY created_at ASC LIMIT ?: the id sequences the SELECT may return.
\* Rows with equal created_at come in any order, and when the limit cuts
\* through such a group any of its rows may be the ones kept.
ClaimSelections(table, now, limit) ==
    LET ids == EligibleIds(table, now)
        n == Min(limit, Cardinality(ids))
    IN  { s \in [1..n -> ids] :
            /\ IsInjective(s)
            /\ \A i \in 1..n : \A j \in 1..n :
                   i < j => table[s[i]].created_at <= table[s[j]].created_at
            /\ \A k \in ids :
                   (\A i \in 1..n : s[i] # k) =>
                       \A i \in 1..n : table[s[i]].created_at <= table[k].created_at }

\* an UPDATE that marks the first selected row only
ClaimUpdate_first_only(table, ids) ==
    [i \in 1..Len(table) |->
        IF ids # <<>> /\ ids[1] = i
        THEN [table[i] EXCEPT !.status = "sending", !.last_error = None]
        ELSE table[i]]

\* UPDATE inbound_outbox SET status='sending', last_error=NULL WHERE id IN (..)
ClaimUpdate(table, ids) ==
    [i \in 1..Len(table) |->
        IF \E j \in 1..Len(ids) : ids[j] = i
        THEN [table[i] EXCEPT !.status = "sending", !.last_error = None]
        ELSE table[i]]

\* claim_outbox_batch from call to return: the records it returns, built from
\* the rows the SELECT read, and the table after its UPDATE (which is skipped
\* when nothing was selected)
claim_outbox_batch(table, now, limit) ==
    { [result |-> [i \in 1..Len(sel) |-> table[sel[i]]],
       table |-> IF sel = <<>> THEN table ELSE ClaimUpdate(table, sel)] :
        sel \in ClaimSelections(table, now, limit) }

mark_outbox_delivered(table, id) ==
    [i \in 1..Len(table) |->
        IF i = id THEN [table[i] EXCEPT !.status = "delivered"] ELSE table[i]]

\* an UPDATE that leaves the due time as it was
mark_outbox_failed_same_due(table, id, retry_count, next_attempt_at, error) ==
    [i \in 1..Len(table) |->
        IF i = id
        THEN [table[i] EXCEPT !.status = "failed",
                              !.retry_count = retry_count,
                              !.last_error = Some(error)]
        ELSE table[i]]

mark_outbox_failed(table, id, retry_count, next_attempt_at, error) ==
    [i \in 1..Len(table) |->
        IF i = id
        THEN [table[i] EXCEPT !.status = "failed",
                              !.retry_count = retry_count,
                              !.next_attempt_at = datetime_to_i64(next_attempt_at),
                              !.last_error = Some(error)]
        ELSE table[i]]

\* ---------------------------------------------------------- configuration
T_webhook == <<"h", "o", "o", "k">>
T_media == <<"m", "e", "d", "i", "a">>
T_agent2 == <<"a", "2">>
T_U1 == <<"U", "1">>
T_u1 == <<"u", "1">>
T_file == <<"f", "i", "l", "e">>
T_sidecar == <<"s", "c">>
T_token == <<"x", "o", "x", "b">>
T_telegram == <<"t", "e", "l", "e", "g", "r", "a", "m">>
T_whatsapp == <<"w", "h", "a", "t", "s", "a", "p", "p">>
T_C9 == <<"C", "9">>
T_A1 == <<"A", "1">>
T_ts == <<"1", ".", "5">>
T_legacy == <<"k", "0">>
T_nokey == <<"z", "z">>
T_A2 == <<"A", "2">>
T_sms == <<"s", "m", "s">>
T_secret == <<"s", "3">>
T_Main == <<"M", "a", "i", "n">>
T_Ann == <<"A", "n", "n">>
T_bob == <<"b", "o", "b">>
T_slack_u1 == <<"s", "l", "a", "c", "k", ":", "u", "1">>
T_telegram_u2 == <<"T", "e", "l", "e", "g", "r", "a", "m", ":", "U", "2">>
T_T7 == <<"T", "7">>
T_t7 == <<"t", "7">>
T_slack_ == <<"s", "l", "a", "c", "k", ":">>
T_Bot == <<"B", "o", "t">>
T_bot_ == <<" ", "b", "o", "t", "\t">>
T_Per_Peer == <<"P", "e", "r", "-", "P", "e", "e", "r">>
T_Slack_ == <<" ", "S", "l", "a", "c", "k", " ">>
T_DM == <<"D", "M">>
T_u2_ == <<"u", "2", " ">>
T_zz == <<"z", "z">>
T_T5 == <<"T", "5">>
T_t5_ == <<"t", "5", " ">>
T_a1_ == <<" ", "a", "1">>
T_u1_ == <<" ", "u", "1">>
T_wrong == <<"S", "3">>
T_ts2 == <<"2", ".", "5">>

\* Config::default() with one slack binding, a backend webhook or none, and a
\* media store or none
MakeConfig(webhook_url, media_upload_url) ==
    [session |-> [agent_id |-> T_main, dm_scope |-> T_main, main_key |-> T_main,
                  identity_links |-> <<>>],
     bindings |-> << [channel |-> T_slack, account_id |-> None, peer_id |-> Some(T_U1),
                      business_profile_id |-> None, user_id |-> None,
                      agent_id |-> Some(T_agent2)] >>,
     queue |-> [debounce_ms |-> DEFAULT_DEBOUNCE_MS],
     backend |-> [webhook_url |-> webhook_url, media_upload_url |-> media_upload_url,
                  api_token |-> None],
     auth |-> [token |-> None],
     channels |-> [slack |-> [bot_token |-> None],
                   telegram |-> [enabled |-> FALSE, bot_token |-> None],
                   whatsapp |-> [sidecar_url |-> T_sidecar]]]

\* the same configuration with auth.token set
WithAuthToken(cfg, token) == [cfg EXCEPT !.auth.token = token]

\* the same configuration with channels.slack.bot_token set
WithSlackToken(cfg, token) == [cfg EXCEPT !.channels.slack.bot_token = token]

Configs == { MakeConfig(Some(T_webhook), None), MakeConfig(None, None) }

\* ------------------------------------------------------- inbound messages
Attachment1 ==
    [id |-> None, url |-> <<"u">>, mime_type |-> None, filename |-> None, size |-> None]

MakeInbound(peer_id, peer_kind, message_id, attachments) ==
    [inbound_id |-> IF IsSome(message_id) THEN Unwrap(message_id) ELSE <<"x">>,
     channel |-> T_slack, account_id |-> None, peer_id |-> peer_id,
     peer_kind |-> peer_kind, thread_id |-> None, message_id |-> message_id,
     sender_name |-> None, text |-> Some(<<"h", "i">>), attachments |-> attachments,
     timestamp |-> None]

\* what the channel adapters hand to handle_inbound: a message with a
\* platform id, and one without an id, with an attachment, from a peer whose
\* id differs from the first one's in letter case only
InboundMessages ==
    { MakeInbound(T_U1, T_channel, Some(<<"7">>), <<>>),
      MakeInbound(T_u1, T_channel, None, <<Attachment1>>) }

\* --------------------------------------------------------------- the state
VARIABLES
    clock,      \* Utc::now(), in milliseconds
    config,     \* the Config loaded at start-up
    sessions,   \* table sessions: session_key -> row
    messages,   \* table messages, in insertion order; a row's id is its index
    outbox,     \* table inbound_outbox, in insertion order; a row's id is its index
    events,     \* the events sent on the broadcast channel ws_tx, in order
    inb,        \* the handle_inbound invocations: position and locals
    worker,     \* the outbox worker tasks: position and locals
    accepted,   \* the POSTs the backend answered with a 2xx status: the row
                \* dispatched and the payload sent
    failures,   \* the number of POSTs the backend failed, and of status
                \* writes the store failed, so far
    limits,     \* what a run may hold: invocations, backend failures, the
                \* messages that may arrive, the time a POST may take, and
                \* how long the clock is followed below the second
    probe,      \* arguments and results of the calls of a function that is
                \* run on its own (compute_backoff, claim_outbox_batch)
    outb,       \* the handle_outbound invocations: position, locals, and the
                \* calls made to the channel adapters
    ws,         \* the subscriber connections: handle_ws's locals, its place
                \* in the broadcast stream and what it wrote to the socket
    tg          \* the Telegram poller: its offset, the updates Telegram holds,
                \* the channel to the consumer task and what came of each update

vars == <<clock, config, sessions, messages, outbox, events, inb, worker, accepted,
          failures, limits, probe, outb, ws, tg>>

InboundIds == 1..MaxInbound
WorkerIds == {"w1", "w2"}

NoInbound == MakeInbound(<<>>, <<>>, None, <<>>)

IdleInvocation ==
    [pc |-> "idle", msg |-> NoInbound, session_key |-> <<>>, now |-> 0,
     tenant |-> NoBindingMatch, agent_id |-> <<>>, message_row |-> 0, result |-> "none",
     outbox_row |-> 0, enqueued_at |-> 0]

OutboundIds == 1..MaxOutbound

NoOutbound ==
    [session_key |-> <<>>, text |-> None, attachments |-> <<>>, channel |-> None,
     account_id |-> None, peer_id |-> None, reply_to |-> None]

NoRoute == [channel |-> <<>>, account_id |-> None, peer_id |-> None, thread_id |-> None]

IdleOutbound ==
    [pc |-> "idle", req |-> NoOutbound, route |-> NoRoute, message_row |-> 0,
     result |-> "none", error |-> "", sent |-> <<>>]

\* one handle_ws task is looked at: the tasks share nothing but the stream
ConnIds == {"c1"}

NoCommand == [type |-> "none", token |-> None, events |-> None]

\* a connection that was not made yet.  cursor is the number of events of the
\* broadcast stream the receiver is past; authorized_at is the length of the
\* stream when the connection became authorized (-1 while it is not) and
\* subscribed_at its length when the receiver was made; last is the command
\* handled last, commands the number of commands handled
NoConnection ==
    [pc |-> "none", authorized |-> FALSE, subscriptions |-> None, cursor |-> 0,
     commands |-> 0, last |-> NoCommand, authorized_at |-> -1, subscribed_at |-> 0,
     out |-> <<>>]

\* no poller: create_app spawns one only when the Telegram channel is enabled
\* and has a bot token.  confirmed is the highest update id Telegram has
\* dropped, seen the ids of the updates the poller was returned, handed the
\* ids of those it sent on the channel, results what handle_inbound returned
\* for the ones the consumer took
NoPoller ==
    [pc |-> "absent", offset |-> 0, updates |-> <<>>, confirmed |-> 0, chan |-> <<>>,
     receiver |-> "absent", seen |-> <<>>, handed |-> <<>>, results |-> <<>>]

IdleWorker(pc) == [pc |-> pc, now |-> 0, batch |-> <<>>, resp |-> None]

NoProbe == [retry_count |-> 0, delay |-> -1]

\* start_outbox_worker returns at once when no webhook is configured; the
\* process spawns one worker task (lib.rs create_app)
\* a worker that starts its loop whatever the configuration
start_outbox_worker_unconditional(backend) == "sleep"

\* outbox.rs lines 20-26: where the worker task is once it has started
start_outbox_worker(backend) ==
    IF IsSome(backend.webhook_url) THEN "sleep" ELSE "returned"

InitWith(lim, configs) ==
    /\ limits = lim
    /\ clock = 0
    /\ config \in configs
    /\ sessions = <<>>
    /\ messages = <<>>
    /\ outbox = <<>>
    /\ events = <<>>
    /\ inb = [p \in InboundIds |-> IdleInvocation]
    /\ worker = [w \in WorkerIds |->
                   IF w = "w1"
                   THEN IdleWorker(start_outbox_worker(config.backend))
                   ELSE IdleWorker("absent")]
    /\ accepted = {}
    /\ failures = 0
    /\ probe = NoProbe
    /\ outb = [q \in OutboundIds |-> IdleOutbound]
    /\ ws = [c \in ConnIds |-> NoConnection]
    /\ tg = NoPoller

\* Spec: the whole system, with handle_inbound calls that run one at a time
\* and a clock that is followed in whole seconds
Init == InitWith([inbound |-> MaxInbound, failures |-> MaxFailures,
                  messages |-> InboundMessages, took |-> {0}, ticks |-> 0], Configs)

\* the time a POST takes, as the wall clock shows it: none, or a second
PostDurations == {0, MsPerSecond}

\* SpecRetry: one message, a backend that may fail it past the last retry,
\* and POSTs that take time
InitRetry == InitWith([inbound |-> 1, failures |-> MaxRetryFailures,
                       messages |-> InboundMessages, took |-> PostDurations,
                       ticks |-> TickLimit], Configs)

\* SpecPipeline: every invocation may be in flight at once (the channel
\* adapters call handle_inbound concurrently); no webhook is configured, so
\* the outbox worker has returned
InitPipeline == InitWith([inbound |-> MaxInbound, failures |-> 0,
                          messages |-> InboundMessages, took |-> {0},
                          ticks |-> TickLimit],
                         { MakeConfig(None, None), MakeConfig(None, Some(T_media)) })

\* ------------------------------------------------------ lib.rs upload_media
StorageUrls == { <<"s">> }

Rehomed(att, storage_url) ==
    [id |-> att.id, url |-> storage_url, mime_type |-> att.mime_type,
     filename |-> Some(IF IsSome(att.filename) THEN Unwrap(att.filename) ELSE T_file),
     size |-> att.size]

\* the lists upload_media may return: without a media store the input; with
\* one, each attachment is the original (its fetch or upload failed, or the
\* answer held no url) or its rehomed copy
upload_media(cfg, attachments) ==
    IF ~IsSome(cfg.backend.media_upload_url) THEN {attachments}
    ELSE { out \in [1..Len(attachments) ->
                      { attachments[i] : i \in 1..Len(attachments) }
                        \cup { Rehomed(attachments[i], u) :
                                 i \in 1..Len(attachments), u \in StorageUrls }] :
             \A i \in 1..Len(attachments) :
                 \/ out[i] = attachments[i]
                 \/ \E u \in StorageUrls : out[i] = Rehomed(attachments[i], u) }

\* --------------------------------------------------- lib.rs handle_inbound
\* format!("{}:{}:{}", inbound.channel, inbound.peer_id, id)
DedupeKey(msg) ==
    IF IsSome(msg.message_id)
    THEN Some(msg.channel \o Colon \o msg.peer_id \o Colon \o Unwrap(msg.message_id))
    ELSE None

SessionRecordFor(cfg, msg, session_key, tenant, now) ==
    [session_key |-> session_key,
     agent_id |-> IF IsSome(tenant.agent_id) THEN Unwrap(tenant.agent_id)
                  ELSE cfg.session.agent_id,
     business_profile_id |-> tenant.business_profile_id,
     user_id |-> tenant.user_id,
     last_route |-> Some([channel |-> msg.channel, account_id |-> msg.account_id,
                          peer_id |-> msg.peer_id, thread_id |-> msg.thread_id]),
     dm_scope |-> cfg.session.dm_scope,
     identity_links |-> IF DOMAIN cfg.session.identity_links = {} THEN None
                        ELSE Some(cfg.session.identity_links),
     created_at |-> datetime_to_i64(now),
     updated_at |-> datetime_to_i64(now)]

InboundMessageRecord(id, inv) ==
    [id |-> id, session_key |-> inv.session_key, direction |-> "inbound",
     channel |-> inv.msg.channel, account_id |-> inv.msg.account_id,
     peer_id |-> Some(inv.msg.peer_id), content |-> inv.msg.text,
     attachments |-> Some(inv.msg.attachments), status |-> "received",
     dedupe_key |-> DedupeKey(inv.msg), created_at |-> datetime_to_i64(inv.now)]

InboundPayload(inv) ==
    [inbound_id |-> inv.msg.inbound_id, session_key |-> inv.session_key,
     channel |-> inv.msg.channel, peer_id |-> inv.msg.peer_id,
     peer_kind |-> inv.msg.peer_kind, thread_id |-> inv.msg.thread_id,
     message_id |-> inv.msg.message_id, sender_name |-> inv.msg.sender_name,
     text |-> inv.msg.text, attachments |-> inv.msg.attachments,
     timestamp |-> inv.msg.timestamp,
     business_profile_id |-> inv.tenant.business_profile_id,
     user_id |-> inv.tenant.user_id, agent_id |-> inv.agent_id]

ChatEvent(direction, record) ==
    [event |-> "chat", payload |-> [direction |-> direction, message |-> record]]

\* an invocation that returned: its locals are gone, the message it was given
\* and its result are kept for the record (and, by hi_enqueue, the outbox item
\* it enqueued and the time it did so)
Returned(inv, result) == [IdleInvocation EXCEPT !.pc = "done", !.msg = inv.msg,
                                                !.result = result]

\* handle_inbound is written as steps on a world w: the tables and the event
\* stream it touches, and the invocation inv running it.  Each step runs up to
\* the next store call of the code and yields the worlds it may lead to.

\* lines 366-369: once the dedupe check let the message pass, the attachments
\* are rehomed.  upload_media reads and writes nothing of the store, so it is
\* taken together with the store access before it.
Rehome(cfg, inv) ==
    { [inv EXCEPT !.pc = "insert_message", !.msg.attachments = out] :
        out \in IF inv.msg.attachments # <<>>
                THEN upload_media(cfg, inv.msg.attachments)
                ELSE {inv.msg.attachments} }

\* lines 310-351: derive the session key, resolve the binding, upsert the session
hi_upsert(w, cfg, msg, now) ==
    { [w EXCEPT !.sessions = upsert_session(w.sessions, x.record), !.inv = x.inv] :
        x \in UNION {
            LET tenant == resolve_binding(cfg.bindings, msg.channel, msg.account_id,
                                          Some(msg.peer_id))
                record == SessionRecordFor(cfg, msg, session_key, tenant, now)
                started == [pc |-> "dedupe", msg |-> msg, session_key |-> session_key,
                            now |-> now, tenant |-> tenant,
                            agent_id |-> record.agent_id, message_row |-> 0,
                            result |-> "none", outbox_row |-> 0, enqueued_at |-> 0]
            IN  { [record |-> record, inv |-> inv] :
                    inv \in IF IsSome(msg.message_id) THEN {started}
                            ELSE Rehome(cfg, started) }
            : session_key \in build_session_key(cfg.session, msg.channel, msg.account_id,
                                                msg.peer_kind, msg.peer_id,
                                                msg.thread_id) } }

\* a check whose finding is not acted upon
hi_dedupe_ignored(w, cfg) ==
    { [w EXCEPT !.inv = inv] : inv \in Rehome(cfg, w.inv) }

\* lines 353-364: the dedupe check
hi_dedupe(w, cfg) ==
    IF message_dedupe_exists(w.messages, Unwrap(DedupeKey(w.inv.msg)))
    THEN { [w EXCEPT !.inv = Returned(w.inv, "ok")] }
    ELSE { [w EXCEPT !.inv = inv] : inv \in Rehome(cfg, w.inv) }

\* a pipeline that publishes the chat event as soon as the message is stored
hi_insert_message_publishing(w) ==
    [w EXCEPT !.messages = insert_message(w.messages,
                                          InboundMessageRecord(Len(w.messages) + 1, w.inv)),
              !.events = Append(w.events,
                                ChatEvent("inbound",
                                          InboundMessageRecord(Len(w.messages) + 1, w.inv))),
              !.inv.pc = "insert_outbox",
              !.inv.message_row = Len(w.messages) + 1]

\* lines 371-390: store the message row
hi_insert_message(w) ==
    [w EXCEPT !.messages = insert_message(w.messages,
                                          InboundMessageRecord(Len(w.messages) + 1, w.inv)),
              !.inv.pc = "insert_outbox",
              !.inv.message_row = Len(w.messages) + 1]

\* lines 392-418: enqueue the outbox item, publish the chat event, return Ok
hi_enqueue(w, cfg, now) ==
    [w EXCEPT !.outbox = insert_outbox(w.outbox, InboundPayload(w.inv),
                                       now + cfg.queue.debounce_ms, now),
              !.events = Append(w.events,
                                ChatEvent("inbound", w.messages[w.inv.message_row])),
              !.inv = [Returned(w.inv, "ok") EXCEPT !.outbox_row = Len(w.outbox) + 1,
                                                    !.enqueued_at = now]]

\* The store calls of handle_inbound when the store fails them.  A failed
\* statement writes nothing.
\* line 351: upsert_session(..).await? returns the error
hi_upsert_fails(w, msg) ==
    [w EXCEPT !.inv = Returned([w.inv EXCEPT !.msg = msg], "err")]

\* a check whose own failure is returned to the caller
hi_dedupe_fails_returned(w, cfg) == { [w EXCEPT !.inv = Returned(w.inv, "err")] }

\* lines 358-360: the dedupe query fails; unwrap_or(false) takes that for "no
\* such message" and the call goes on
hi_dedupe_fails(w, cfg) ==
    { [w EXCEPT !.inv = inv] : inv \in Rehome(cfg, w.inv) }

\* line 390: insert_message(..).await? returns the error
hi_insert_message_fails(w) == [w EXCEPT !.inv = Returned(w.inv, "err")]

\* an enqueue that fails, and a call that publishes the event and returns Ok
\* all the same
hi_enqueue_fails_unnoticed(w) ==
    [w EXCEPT !.events = Append(w.events,
                                ChatEvent("inbound", w.messages[w.inv.message_row])),
              !.inv = Returned(w.inv, "ok")]

\* line 411: insert_outbox(..).await? returns the error
hi_enqueue_fails(w) == [w EXCEPT !.inv = Returned(w.inv, "err")]

\* a whole call that no other task interleaves with
handle_inbound(w, cfg, msg, now) ==
    LET checked == UNION { IF w1.inv.pc = "dedupe" THEN hi_dedupe(w1, cfg) ELSE {w1} :
                             w1 \in hi_upsert(w, cfg, msg, now) }
    IN  { IF w2.inv.pc = "done" THEN w2
          ELSE hi_enqueue(hi_insert_message(w2), cfg, now) : w2 \in checked }

World(p) ==
    [sessions |-> sessions, messages |-> messages, outbox |-> outbox, events |-> events,
     inv |-> inb[p]]

Install(p, w) ==
    /\ sessions' = w.sessions
    /\ messages' = w.messages
    /\ outbox' = w.outbox
    /\ events' = w.events
    /\ inb' = [inb EXCEPT ![p] = w.inv]
    /\ UNCHANGED <<clock, config, worker, accepted, failures, limits, probe, outb, ws, tg>>

\* invocations are numbered in the order they start
MayStart(p) ==
    /\ inb[p].pc = "idle"
    /\ p <= limits.inbound
    /\ \A q \in InboundIds : q < p => inb[q].pc # "idle"

HandleInboundUpsert(p, msg) ==
    /\ MayStart(p)
    /\ \E w \in hi_upsert(World(p), config, msg, clock) : Install(p, w)

HandleInboundDedupe(p) ==
    /\ inb[p].pc = "dedupe"
    /\ \E w \in hi_dedupe(World(p), config) : Install(p, w)

HandleInboundInsertMessage(p) ==
    /\ inb[p].pc = "insert_message"
    /\ Install(p, hi_insert_message(World(p)))

HandleInboundEnqueue(p) ==
    /\ inb[p].pc = "insert_outbox"
    /\ Install(p, hi_enqueue(World(p), config, clock))

HandleInboundUpsertFails(p, msg) ==
    /\ MayStart(p)
    /\ Install(p, hi_upsert_fails(World(p), msg))

HandleInboundDedupeFails(p) ==
    /\ inb[p].pc = "dedupe"
    /\ \E w \in hi_dedupe_fails(World(p), config) : Install(p, w)

HandleInboundInsertMessageFails(p) ==
    /\ inb[p].pc = "insert_message"
    /\ Install(p, hi_insert_message_fails(World(p)))

HandleInboundEnqueueFails(p) ==
    /\ inb[p].pc = "insert_outbox"
    /\ Install(p, hi_enqueue_fails(World(p)))

\* handle_inbound from call to return in one step
HandleInbound(p, msg) ==
    /\ MayStart(p)
    /\ \A q \in InboundIds : inb[q].pc \in {"idle", "done"}
    /\ \E w \in handle_inbound(World(p), config, msg, clock) : Install(p, w)

\* ------------------------------------------------- lib.rs handle_outbound
\* db.rs get_session: the row of the key, or None
get_session(table, session_key) ==
    IF session_key \in DOMAIN table THEN Some(table[session_key]) ELSE None

\* lines 432-454: the RouteInfo read back from a stored last_route.  The
\* stored JSON has the peer as a string and the account and thread as a
\* string or null
route_from_last_route(last_route) ==
    [channel |-> last_route.channel, account_id |-> last_route.account_id,
     peer_id |-> Some(last_route.peer_id), thread_id |-> last_route.thread_id]

\* lines 424-429: the route of a request that names its channel
explicit_route(outbound) ==
    [channel |-> Unwrap(outbound.channel), account_id |-> outbound.account_id,
     peer_id |-> outbound.peer_id, thread_id |-> None]

RouteOk(route) == [ok |-> TRUE, route |-> route, error |-> ""]
RouteErr(error) == [ok |-> FALSE, route |-> NoRoute, error |-> error]

\* a resolution that prefers the route the session has stored
resolve_route_session_first(outbound, session) ==
    IF IsSome(session) /\ IsSome(Unwrap(session).last_route)
    THEN RouteOk(route_from_last_route(Unwrap(Unwrap(session).last_route)))
    ELSE IF IsSome(outbound.channel)
    THEN RouteOk(explicit_route(outbound))
    ELSE IF IsSome(session)
    THEN RouteErr("no route for session")
    ELSE RouteErr("unknown session")

\* a resolution that falls back to an empty route instead of failing
resolve_route_lenient(outbound, session) ==
    IF IsSome(outbound.channel)
    THEN RouteOk(explicit_route(outbound))
    ELSE IF IsSome(session) /\ IsSome(Unwrap(session).last_route)
    THEN RouteOk(route_from_last_route(Unwrap(Unwrap(session).last_route)))
    ELSE RouteOk(NoRoute)

\* lines 423-460
resolve_route(outbound, session) ==
    IF IsSome(outbound.channel)
    THEN RouteOk(explicit_route(outbound))
    ELSE IF IsSome(session)
    THEN IF IsSome(Unwrap(session).last_route)
         THEN RouteOk(route_from_last_route(Unwrap(Unwrap(session).last_route)))
         ELSE RouteErr("no route for session")
    ELSE RouteErr("unknown session")

\* lines 462-475; the id stands for the fresh UUID
OutboundMessageRecord(id, outbound, route, now) ==
    [id |-> id, session_key |-> outbound.session_key, direction |-> "outbound",
     channel |-> route.channel, account_id |-> route.account_id,
     peer_id |-> route.peer_id, content |-> outbound.text,
     attachments |-> Some(outbound.attachments), status |-> "queued",
     dedupe_key |-> None, created_at |-> datetime_to_i64(now)]

\* Option::or
OrElse(a, b) == IF IsSome(a) THEN a ELSE b

AdapterCall(adapter, credential, peer, outbound, thread) ==
    [ok |-> TRUE, error |-> "",
     call |-> [adapter |-> adapter, credential |-> credential, peer |-> peer,
               text |-> outbound.text, thread |-> thread,
               attachments |-> outbound.attachments]]

AdapterRefused(error) == [ok |-> FALSE, error |-> error, call |-> <<>>]

\* send_via_channel up to the call of the channel adapter: the call it makes,
\* or the error it returns without calling one
send_via_channel(cfg, route, outbound) ==
    IF route.channel = T_slack
    THEN IF ~IsSome(cfg.channels.slack.bot_token)
         THEN AdapterRefused("slack token missing")
         ELSE IF ~IsSome(route.peer_id)
         THEN AdapterRefused("slack peer missing")
         ELSE AdapterCall("slack", Unwrap(cfg.channels.slack.bot_token),
                          Unwrap(route.peer_id), outbound,
                          OrElse(outbound.reply_to, route.thread_id))
    ELSE IF route.channel = T_telegram
    THEN IF ~IsSome(cfg.channels.telegram.bot_token)
         THEN AdapterRefused("telegram token missing")
         ELSE IF ~IsSome(route.peer_id)
         THEN AdapterRefused("telegram peer missing")
         ELSE AdapterCall("telegram", Unwrap(cfg.channels.telegram.bot_token),
                          Unwrap(route.peer_id), outbound, outbound.reply_to)
    ELSE IF route.channel = T_whatsapp
    THEN IF ~IsSome(route.peer_id)
         THEN AdapterRefused("whatsapp peer missing")
         ELSE AdapterCall("whatsapp", cfg.channels.whatsapp.sidecar_url,
                          Unwrap(route.peer_id), outbound, None)
    ELSE AdapterRefused("unsupported channel")

\* an invocation that returned: the request, the route it resolved, the row
\* it stored and the adapter calls it made are kept for the record
OutboundReturned(o, result, error) == [o EXCEPT !.pc = "done", !.result = result,
                                                !.error = error]

MakeOutbound(session_key, channel, account_id, peer_id, reply_to) ==
    [session_key |-> session_key, text |-> Some(<<"y", "o">>), attachments |-> <<>>,
     channel |-> channel, account_id |-> account_id, peer_id |-> peer_id,
     reply_to |-> reply_to]

\* the requests the HTTP and websocket handlers hand to handle_outbound: a
\* reply on the session's route, a message to a slack channel named in the
\* request, with or without a peer, one to telegram and one to a channel the
\* gateway has no adapter for
OutboundMessages(keys) ==
    { MakeOutbound(key, None, None, None, reply_to) :
        key \in keys, reply_to \in {None, Some(T_ts)} }
    \cup { MakeOutbound(key, Some(T_slack), Some(T_A1), peer_id, reply_to) :
        key \in keys, peer_id \in {None, Some(T_C9)}, reply_to \in {None, Some(T_ts)} }
    \cup { MakeOutbound(key, Some(channel), None, Some(T_C9), None) :
        key \in keys, channel \in {T_telegram, T_sms} }

MayStartOutbound(q) ==
    /\ outb[q].pc = "idle"
    /\ \A r \in OutboundIds : r < q => outb[r].pc # "idle"

\* line 422 with the route resolution of lines 423-460, which reads only the
\* session the lookup returned
HandleOutboundResolve(q, req) ==
    /\ MayStartOutbound(q)
    /\ LET r == resolve_route(req, get_session(sessions, req.session_key))
           o == [outb[q] EXCEPT !.req = req]
       IN  outb' = [outb EXCEPT ![q] =
                      IF r.ok THEN [o EXCEPT !.pc = "insert_message", !.route = r.route]
                      ELSE OutboundReturned(o, "err", r.error)]
    /\ UNCHANGED <<clock, config, sessions, messages, outbox, events, inb, worker,
                   accepted, failures, limits, probe, ws, tg>>

\* line 422: get_session(..).await? returns the error of the lookup
HandleOutboundLookupFails(q, req) ==
    /\ MayStartOutbound(q)
    /\ outb' = [outb EXCEPT ![q] =
                  OutboundReturned([outb[q] EXCEPT !.req = req], "err", "get_session")]
    /\ UNCHANGED <<clock, config, sessions, messages, outbox, events, inb, worker,
                   accepted, failures, limits, probe, ws, tg>>

\* lines 462-476
HandleOutboundInsertMessage(q) ==
    /\ outb[q].pc = "insert_message"
    /\ messages' = insert_message(messages,
                      OutboundMessageRecord(Len(messages) + 1, outb[q].req,
                                            outb[q].route, clock))
    /\ outb' = [outb EXCEPT ![q].pc = "send", ![q].message_row = Len(messages) + 1]
    /\ UNCHANGED <<clock, config, sessions, outbox, events, inb, worker, accepted,
                   failures, limits, probe, ws, tg>>

\* a handler that publishes the chat event whatever send_via_channel returned
HandleOutboundSend_always_publishes(q, delivered) ==
    /\ outb[q].pc = "send"
    /\ LET s == send_via_channel(config, outb[q].route, outb[q].req)
           o == IF s.ok THEN [outb[q] EXCEPT !.sent = Append(@, s.call)] ELSE outb[q]
       IN  /\ events' = Append(events,
                               ChatEvent("outbound", messages[outb[q].message_row]))
           /\ outb' = [outb EXCEPT ![q] =
                         IF s.ok /\ delivered
                         THEN OutboundReturned(o, "ok", "")
                         ELSE OutboundReturned(o, "err",
                                               IF s.ok THEN "channel adapter" ELSE s.error)]
    /\ UNCHANGED <<clock, config, sessions, messages, outbox, inb, worker, accepted,
                   failures, limits, probe, ws, tg>>

\* a call that writes the outcome of the send back to the message row
HandleOutboundSend_marks_row(q, delivered) ==
    /\ outb[q].pc = "send"
    /\ LET s == send_via_channel(config, outb[q].route, outb[q].req)
           o == IF s.ok THEN [outb[q] EXCEPT !.sent = Append(@, s.call)] ELSE outb[q]
       IN  IF s.ok /\ delivered
           THEN /\ events' = Append(events,
                                ChatEvent("outbound", messages[outb[q].message_row]))
                /\ messages' = [messages EXCEPT ![outb[q].message_row].status = "sent"]
                /\ outb' = [outb EXCEPT ![q] = OutboundReturned(o, "ok", "")]
           ELSE /\ events' = events
                /\ messages' = [messages EXCEPT ![outb[q].message_row].status = "failed"]
                /\ outb' = [outb EXCEPT ![q] =
                              OutboundReturned(o, "err",
                                               IF s.ok THEN "channel adapter" ELSE s.error)]
    /\ UNCHANGED <<clock, config, sessions, outbox, inb, worker, accepted,
                   failures, limits, probe, ws, tg>>

\* a call that returns the error of ws_tx.send, which is Err when no receiver
\* is subscribed
HandleOutboundSend_needs_receiver(q, delivered) ==
    /\ outb[q].pc = "send"
    /\ LET s == send_via_channel(config, outb[q].route, outb[q].req)
           o == IF s.ok THEN [outb[q] EXCEPT !.sent = Append(@, s.call)] ELSE outb[q]
           heard == \E c \in DOMAIN ws : ws[c].pc = "open"
       IN  IF s.ok /\ delivered /\ heard
           THEN /\ events' = Append(events,
                                ChatEvent("outbound", messages[outb[q].message_row]))
                /\ outb' = [outb EXCEPT ![q] = OutboundReturned(o, "ok", "")]
           ELSE /\ events' = events
                /\ outb' = [outb EXCEPT ![q] =
                              OutboundReturned(o, "err",
                                               IF ~s.ok THEN s.error
                                               ELSE IF delivered THEN "channel closed"
                                               ELSE "channel adapter")]
    /\ UNCHANGED <<clock, config, sessions, messages, outbox, inb, worker, accepted,
                   failures, limits, probe, ws, tg>>

\* lines 478-484: send_via_channel(..).await? and, when it returned Ok, the
\* chat event.  delivered says whether the adapter that was called succeeded.
HandleOutboundSend(q, delivered) ==
    /\ outb[q].pc = "send"
    /\ LET s == send_via_channel(config, outb[q].route, outb[q].req)
           o == IF s.ok THEN [outb[q] EXCEPT !.sent = Append(@, s.call)] ELSE outb[q]
       IN  IF s.ok /\ delivered
           THEN /\ events' = Append(events,
                                ChatEvent("outbound", messages[outb[q].message_row]))
                /\ outb' = [outb EXCEPT ![q] = OutboundReturned(o, "ok", "")]
           ELSE /\ events' = events
                /\ outb' = [outb EXCEPT ![q] =
                              OutboundReturned(o, "err",
                                               IF s.ok THEN "channel adapter" ELSE s.error)]
    /\ UNCHANGED <<clock, config, sessions, messages, outbox, inb, worker, accepted,
                   failures, limits, probe, ws, tg>>

\* ---------------------------------------------- outbox.rs start_outbox_worker
\* line 27 and the SELECT of claim_outbox_batch.  A cycle that finds nothing
\* goes back to sleep with nothing changed.
WorkerClaimSelect(w) ==
    /\ worker[w].pc = "sleep"
    /\ \E sel \in ClaimSelections(outbox, clock, OUTBOX_BATCH) :
         IF sel = <<>>
         THEN UNCHANGED worker
         ELSE worker' = [worker EXCEPT ![w] =
                           [pc |-> "claim_update", now |-> clock,
                            batch |-> [i \in 1..Len(sel) |-> outbox[sel[i]]],
                            resp |-> None]]
    /\ UNCHANGED <<clock, config, sessions, messages, outbox, events, inb, accepted,
                   failures, limits, probe, outb, ws, tg>>

\* the UPDATE of claim_outbox_batch
WorkerClaimUpdate(w) ==
    /\ worker[w].pc = "claim_update"
    /\ outbox' = ClaimUpdate(outbox, [i \in 1..Len(worker[w].batch) |-> worker[w].batch[i].id])
    /\ worker' = [worker EXCEPT ![w].pc = "dispatch"]
    /\ UNCHANGED <<clock, config, sessions, messages, events, inb, accepted, failures,
                   limits, probe, outb, ws, tg>>

\* dispatch_row lines 68-74: POST the row's payload; the backend answers
\* after some time
WorkerPost(w, resp, took) ==
    /\ worker[w].pc = "dispatch"
    /\ clock' = clock + took
    /\ Answered2xx(resp) \/ failures < limits.failures
    /\ failures' = IF Answered2xx(resp) THEN failures ELSE failures + 1
    /\ accepted' = IF Answered2xx(resp)
                   THEN accepted \cup {[id |-> Head(worker[w].batch).id,
                                         payload |-> Head(worker[w].batch).payload]}
                   ELSE accepted
    /\ worker' = [worker EXCEPT ![w].pc = "responded", ![w].resp = resp]
    /\ UNCHANGED <<config, sessions, messages, outbox, events, inb, limits, probe, outb, ws, tg>>

\* a worker that parks an item an hour after the failed dispatch
FailedRowUpdate_from_now(table, row, cycle_now, now, err) ==
    LET retry == row.retry_count + 1
    IN  IF retry >= OUTBOX_MAX_RETRIES
        THEN mark_outbox_failed(table, row.id, retry, now + PARK_SECONDS * MsPerSecond, err)
        ELSE mark_outbox_failed(table, row.id, retry,
                                now + compute_backoff(retry) * MsPerSecond, err)

\* outbox.rs lines 31-53: the row, as it is after a failed dispatch
FailedRowUpdate(table, row, cycle_now, now, err) ==
    LET retry == row.retry_count + 1
    IN  IF retry >= OUTBOX_MAX_RETRIES
        THEN mark_outbox_failed(table, row.id, retry,
                                cycle_now + PARK_SECONDS * MsPerSecond, err)
        ELSE mark_outbox_failed(table, row.id, retry,
                                now + compute_backoff(retry) * MsPerSecond, err)

\* dispatch_row lines 75-82 and the loop body lines 30-54
WorkerSettle(w) ==
    /\ worker[w].pc = "responded"
    /\ LET row == Head(worker[w].batch)
           rest == Tail(worker[w].batch)
       IN  /\ outbox' = IF DispatchOk(worker[w].resp)
                        THEN mark_outbox_delivered(outbox, row.id)
                        ELSE FailedRowUpdate(outbox, row, worker[w].now, clock,
                                             DispatchError(worker[w].resp))
           /\ worker' = [worker EXCEPT ![w] =
                           IF rest = <<>> THEN IdleWorker("sleep")
                           ELSE [@ EXCEPT !.pc = "dispatch", !.batch = rest,
                                          !.resp = None]]
    /\ UNCHANGED <<clock, config, sessions, messages, events, inb, accepted, failures,
                   limits, probe, outb, ws, tg>>

\* ------------------------------------------------------------- the clock
HalfSecond == MsPerSecond \div 2

\* Time passes: by half a second early in the run (in the runs that follow
\* the clock below the second), or up to the moment a waiting outbox item
\* falls due.
AdvanceTargets ==
    { i64_to_datetime(outbox[i].next_attempt_at) : i \in 1..Len(outbox) }
        \cup (IF clock < limits.ticks THEN {clock + HalfSecond} ELSE {})

Advance(t) ==
    /\ t > clock
    /\ clock' = t
    /\ UNCHANGED <<config, sessions, messages, outbox, events, inb, worker, accepted,
                   failures, limits, probe, outb, ws, tg>>

NextInbound ==
    \/ \E p \in InboundIds, msg \in limits.messages : HandleInboundUpsert(p, msg)
    \/ \E p \in InboundIds : HandleInboundDedupe(p)
    \/ \E p \in InboundIds : HandleInboundInsertMessage(p)
    \/ \E p \in InboundIds : HandleInboundEnqueue(p)

NextPipeline ==
    \/ NextInbound
    \/ \E t \in AdvanceTargets : Advance(t)

Next ==
    \/ \E p \in InboundIds, msg \in limits.messages : HandleInbound(p, msg)
    \/ \E w \in WorkerIds : WorkerClaimSelect(w)
    \/ \E w \in WorkerIds : WorkerClaimUpdate(w)
    \/ \E w \in WorkerIds, resp \in Responses, took \in limits.took :
            WorkerPost(w, resp, took)
    \/ \E w \in WorkerIds : WorkerSettle(w)
    \/ \E t \in AdvanceTargets : Advance(t)

Spec == Init /\ [][Next]_vars

SpecRetry == InitRetry /\ [][Next]_vars

SpecPipeline == InitPipeline /\ [][NextPipeline]_vars

\* ------------------------------------------------ a store that may fail
\* SpecFaults: the stepwise pipeline, with store calls that may fail
InitFaults == InitWith([inbound |-> MaxInbound, failures |-> 0,
                        messages |-> InboundMessages, took |-> {0}, ticks |-> 0],
                       { MakeConfig(None, None) })

NextFaults ==
    \/ NextInbound
    \/ \E p \in InboundIds, msg \in limits.messages : HandleInboundUpsertFails(p, msg)
    \/ \E p \in InboundIds : HandleInboundDedupeFails(p)
    \/ \E p \in InboundIds : HandleInboundInsertMessageFails(p)
    \/ \E p \in InboundIds : HandleInboundEnqueueFails(p)

SpecFaults == InitFaults /\ [][NextFaults]_vars

\* ------------------------------------------ a dedupe check that may fail
\* SpecDedupeFault: handle_inbound calls that run one after the other, over a
\* store that may fail the dedupe query and nothing else
InitDedupeFault == InitWith([inbound |-> MaxInbound, failures |-> 0,
                             messages |-> InboundMessages, took |-> {0},
                             ticks |-> TickLimit],
                            { MakeConfig(None, None), MakeConfig(None, Some(T_media)) })

NextDedupeFault ==
    \/ \E p \in InboundIds, msg \in limits.messages :
          /\ \A q \in InboundIds : inb[q].pc \in {"idle", "done"}
          /\ HandleInboundUpsert(p, msg)
    \/ \E p \in InboundIds : HandleInboundDedupe(p)
    \/ \E p \in InboundIds : HandleInboundDedupeFails(p)
    \/ \E p \in InboundIds : HandleInboundInsertMessage(p)
    \/ \E p \in InboundIds : HandleInboundEnqueue(p)
    \/ \E t \in AdvanceTargets : Advance(t)

SpecDedupeFault == InitDedupeFault /\ [][NextDedupeFault]_vars

\* ------------------------------------------- a worker that loses its place
\* a status write of dispatch_row or of the loop body fails.  After a 2xx
\* answer the failed mark_outbox_delivered makes dispatch_row return Err
\* (line 76), so the loop body goes on to mark_outbox_failed; that write, or
\* the same write after a failed dispatch, either lands (landed) or fails as
\* well, and its result is dropped (let _ =, lines 34 and 44)
WorkerSettleFails(w, landed) ==
    /\ worker[w].pc = "responded"
    /\ DispatchOk(worker[w].resp) \/ ~landed
    /\ failures < limits.failures
    /\ failures' = failures + 1
    /\ LET row == Head(worker[w].batch)
           rest == Tail(worker[w].batch)
       IN  /\ outbox' = IF landed
                        THEN FailedRowUpdate(outbox, row, worker[w].now, clock,
                                             <<"error returned from database">>)
                        ELSE outbox
           /\ worker' = [worker EXCEPT ![w] =
                           IF rest = <<>> THEN IdleWorker("sleep")
                           ELSE [@ EXCEPT !.pc = "dispatch", !.batch = rest,
                                          !.resp = None]]
    /\ UNCHANGED <<clock, config, sessions, messages, events, inb, accepted, limits,
                   probe, outb, ws, tg>>

\* the process shuts down: the worker task ends wherever it is, and what it
\* held of its batch is gone
WorkerStops(w) ==
    /\ worker[w].pc \in {"sleep", "claim_update", "dispatch", "responded"}
    /\ worker' = [worker EXCEPT ![w] = IdleWorker("stopped")]
    /\ UNCHANGED <<clock, config, sessions, messages, outbox, events, inb, accepted,
                   failures, limits, probe, outb, ws, tg>>

\* the process starts again on the same database: create_app spawns the worker
WorkerRestarts(w) ==
    /\ worker[w].pc = "stopped"
    /\ worker' = [worker EXCEPT ![w] = IdleWorker(start_outbox_worker(config.backend))]
    /\ UNCHANGED <<clock, config, sessions, messages, outbox, events, inb, accepted,
                   failures, limits, probe, outb, ws, tg>>

InitStuck == InitWith([inbound |-> StuckInbound, failures |-> StuckFailures,
                       messages |-> InboundMessages, took |-> {0}, ticks |-> 0],
                      { MakeConfig(Some(T_webhook), None) })

NextStuck ==
    \/ Next
    \/ \E w \in WorkerIds, landed \in BOOLEAN : WorkerSettleFails(w, landed)
    \/ \E w \in WorkerIds : WorkerStops(w)
    \/ \E w \in WorkerIds : WorkerRestarts(w)

SpecStuck == InitStuck /\ [][NextStuck]_vars

\* ------------------------------------------------- two workers, one table
\* SpecTwoWorkers: two processes run start_outbox_worker on the same
\* database; the SELECT and the UPDATE of claim_outbox_batch are two
\* statements with no transaction around them
InitTwoWorkers ==
    /\ limits = [inbound |-> MaxInbound, failures |-> 1, messages |-> InboundMessages,
                 took |-> {0}, ticks |-> 0]
    /\ clock = 0
    /\ config = MakeConfig(Some(T_webhook), None)
    /\ sessions = <<>>
    /\ messages = <<>>
    /\ outbox = <<>>
    /\ events = <<>>
    /\ inb = [p \in InboundIds |-> IdleInvocation]
    /\ worker = [w \in WorkerIds |-> IdleWorker(start_outbox_worker(config.backend))]
    /\ accepted = {}
    /\ failures = 0
    /\ probe = NoProbe
    /\ outb = [q \in OutboundIds |-> IdleOutbound]
    /\ ws = [c \in ConnIds |-> NoConnection]
    /\ tg = NoPoller

SpecTwoWorkers == InitTwoWorkers /\ [][Next]_vars

\* ------------------------------------------------- outbound requests
\* a sessions row written with no last_route (the column is nullable)
LegacySession ==
    [session_key |-> T_legacy, agent_id |-> T_main, business_profile_id |-> None,
     user_id |-> None, last_route |-> None, dm_scope |-> T_main,
     identity_links |-> None, created_at |-> 0, updated_at |-> 0]

\* a gateway with no backend webhook, with or without a slack token, over a
\* store that has no session or one session without a last route
InitOutbound ==
    /\ limits = [inbound |-> 1, failures |-> 0, messages |-> InboundMessages,
                 took |-> {0}, ticks |-> 0]
    /\ clock = 0
    /\ config \in { MakeConfig(None, None), WithSlackToken(MakeConfig(None, None),
                                                           Some(T_token)) }
    /\ sessions \in { <<>>, [k \in {T_legacy} |-> LegacySession] }
    /\ messages = <<>>
    /\ outbox = <<>>
    /\ events = <<>>
    /\ inb = [p \in InboundIds |-> IdleInvocation]
    /\ worker = [w \in WorkerIds |->
                   IF w = "w1"
                   THEN IdleWorker(start_outbox_worker(config.backend))
                   ELSE IdleWorker("absent")]
    /\ accepted = {}
    /\ failures = 0
    /\ probe = NoProbe
    /\ outb = [q \in OutboundIds |-> IdleOutbound]
    /\ ws = [c \in ConnIds |-> NoConnection]
    /\ tg = NoPoller

NextOutbound ==
    \/ \E p \in InboundIds, msg \in limits.messages : HandleInbound(p, msg)
    \/ \E q \in OutboundIds, req \in OutboundMessages(DOMAIN sessions \cup {T_nokey}) :
          HandleOutboundResolve(q, req)
    \/ \E q \in OutboundIds, req \in OutboundMessages(DOMAIN sessions \cup {T_nokey}) :
          HandleOutboundLookupFails(q, req)
    \/ \E q \in OutboundIds : HandleOutboundInsertMessage(q)
    \/ \E q \in OutboundIds, delivered \in BOOLEAN : HandleOutboundSend(q, delivered)

SpecOutbound == InitOutbound /\ [][NextOutbound]_vars

\* ------------------------------------------------- replies on the last route
\* direct messages, which all fall in the one main session: a message, the
\* same platform message delivered again from another account and in a
\* thread (a duplicate by its dedupe key), and a message of another peer
RouteMessages ==
    { MakeInbound(T_U1, T_dm, Some(<<"7">>), <<>>),
      [MakeInbound(T_U1, T_dm, Some(<<"7">>), <<>>)
          EXCEPT !.account_id = Some(T_A2), !.thread_id = Some(T_ts2)],
      MakeInbound(T_C9, T_dm, None, <<>>) }

\* a gateway with a slack token and an empty store, two inbound messages
InitRoute ==
    InitWith([inbound |-> 2, failures |-> 0, messages |-> RouteMessages,
              took |-> {0}, ticks |-> 0],
             { WithSlackToken(MakeConfig(None, None), Some(T_token)) })

SpecRoute == InitRoute /\ [][NextOutbound]_vars

\* ------------------------------------------------------ ws.rs handle_ws
\* the commands a subscriber can send (WsCommand)
WsCommands ==
    { [type |-> "connect", token |-> token, events |-> None] :
        token \in {None, Some(T_secret), Some(T_wrong)} }
    \cup { [type |-> "subscribe", token |-> None, events |-> names] :
        names \in {None, Some({}), Some({"chat"}), Some({"status"})} }
    \cup { [type |-> "ping", token |-> None, events |-> None] }

\* a test that takes any token that is present
connect_accepts_any_token(auth_token, token) ==
    IsSome(auth_token) => IsSome(token)

\* lines 44-49: the connect command passes unless a secret is configured and
\* the token is not that secret
connect_accepts(auth_token, token) ==
    IsSome(auth_token) => token = Some(Unwrap(auth_token))

\* a filter that does not look at authorized
forwards_unauthorized(authorized, subscriptions, evt) ==
    IsSome(subscriptions) => evt.event \in Unwrap(subscriptions)

\* a filter that does not look at the subscriptions
forwards_unsubscribed(authorized, subscriptions, evt) == authorized

\* lines 74-81: whether an event taken from the broadcast receiver is written
\* to the socket
forwards(authorized, subscriptions, evt) ==
    /\ authorized
    /\ IsSome(subscriptions) => evt.event \in Unwrap(subscriptions)

\* what handle_ws writes to the socket
Presence == [kind |-> "presence", event |-> "presence", index |-> 0]
Health == [kind |-> "health", event |-> "health", index |-> 0]
CloseFrame == [kind |-> "close", event |-> "", index |-> 0]
Forwarded(evt, index) == [kind |-> "event", event |-> evt.event, index |-> index]

\* lib.rs lines 177-181 and ws.rs lines 28-29: the receiver is subscribed at
\* the upgrade request, handle_ws starts with authorized = auth_token.is_none()
WsUpgrade(c) ==
    /\ ws[c].pc = "none"
    /\ ws' = [ws EXCEPT ![c] =
                [NoConnection EXCEPT
                    !.pc = "open",
                    !.authorized = ~IsSome(config.auth.token),
                    !.cursor = Len(events),
                    !.subscribed_at = Len(events),
                    !.authorized_at = IF IsSome(config.auth.token) THEN -1
                                      ELSE Len(events)]]
    /\ UNCHANGED <<clock, config, sessions, messages, outbox, events, inb, worker,
                   accepted, failures, limits, probe, outb, tg>>

\* lines 32-72: the socket branch of the select with a text frame that parses
\* as a command
WsCommand(c, cmd) ==
    /\ ws[c].pc = "open"
    /\ ws[c].commands < MaxCommands
    /\ LET k == [ws[c] EXCEPT !.commands = @ + 1, !.last = cmd]
       IN  ws' = [ws EXCEPT ![c] =
                CASE cmd.type = "connect" ->
                       IF connect_accepts(config.auth.token, cmd.token)
                       THEN [k EXCEPT !.authorized = TRUE,
                                      !.authorized_at = IF ws[c].authorized THEN @
                                                        ELSE Len(events),
                                      !.out = Append(@, Presence)]
                       ELSE [k EXCEPT !.pc = "closed", !.out = Append(@, CloseFrame)]
                  [] cmd.type = "subscribe" ->
                       [k EXCEPT !.subscriptions = cmd.events]
                  [] OTHER ->
                       [k EXCEPT !.out = Append(@, Health)]]
    /\ UNCHANGED <<clock, config, sessions, messages, outbox, events, inb, worker,
                   accepted, failures, limits, probe, outb, tg>>

\* lines 34-39: the socket is at its end or the subscriber sent a close frame
WsClosed(c) ==
    /\ ws[c].pc = "open"
    /\ ws' = [ws EXCEPT ![c].pc = "closed"]
    /\ UNCHANGED <<clock, config, sessions, messages, outbox, events, inb, worker,
                   accepted, failures, limits, probe, outb, tg>>

\* lines 73-86: the receiver branch of the select.  A receiver that is more
\* than the channel's capacity behind gets Err(Lagged) and skips to the oldest
\* event kept; written says whether the write to the socket succeeded.
WsEvent(c, written) ==
    /\ ws[c].pc = "open"
    /\ ws[c].cursor < Len(events)
    /\ IF Len(events) - ws[c].cursor > WS_CAPACITY
       THEN ws' = [ws EXCEPT ![c].cursor = Len(events) - WS_CAPACITY]
       ELSE LET index == ws[c].cursor + 1
                k == [ws[c] EXCEPT !.cursor = index]
            IN  ws' = [ws EXCEPT ![c] =
                     IF ~forwards(k.authorized, k.subscriptions, events[index])
                     THEN k
                     ELSE IF written
                     THEN [k EXCEPT !.out = Append(@, Forwarded(events[index], index))]
                     ELSE [k EXCEPT !.pc = "closed"]]
    /\ UNCHANGED <<clock, config, sessions, messages, outbox, events, inb, worker,
                   accepted, failures, limits, probe, outb, tg>>

\* lib.rs lines 413 and 479: ws_tx.send of an event
WsPublish(name) ==
    /\ Len(events) < MaxPublished
    /\ events' = Append(events, [event |-> name, payload |-> <<>>])
    /\ UNCHANGED <<clock, config, sessions, messages, outbox, inb, worker, accepted,
                   failures, limits, probe, outb, ws, tg>>

\* a gateway with or without a configured secret, no subscriber yet
InitWs ==
    InitWith([inbound |-> 0, failures |-> 0, messages |-> {}, took |-> {0},
              ticks |-> 0],
             { MakeConfig(None, None), WithAuthToken(MakeConfig(None, None),
                                                     Some(T_secret)) })

NextWs ==
    \/ \E c \in ConnIds : WsUpgrade(c)
    \/ \E c \in ConnIds, cmd \in WsCommands : WsCommand(c, cmd)
    \/ \E c \in ConnIds : WsClosed(c)
    \/ \E c \in ConnIds, written \in BOOLEAN : WsEvent(c, written)
    \/ \E name \in {"chat", "status"} : WsPublish(name)

SpecWs == InitWs /\ [][NextWs]_vars

\* ------------------------------------------- publishers and subscribers
\* the stream so far: as many events as the broadcast channel keeps
Backlog == [i \in 1..WS_CAPACITY |-> [event |-> "status", payload |-> <<>>]]

\* an authorized connection that subscribed before the backlog was sent and
\* took seen of its events
Subscriber(seen) ==
    [NoConnection EXCEPT !.pc = "open", !.authorized = TRUE, !.authorized_at = 0,
                         !.cursor = seen]

\* who listens: nobody, one subscriber that has read nothing (slow) or all of
\* the backlog (live), or a slow or live one next to a live one
Audiences ==
    { [c \in {"c1", "c2"} |-> NoConnection] }
    \cup { [c \in {"c1", "c2"} |-> IF c = "c1" THEN Subscriber(seen) ELSE NoConnection] :
             seen \in {0, WS_CAPACITY} }
    \cup { [c \in {"c1", "c2"} |-> IF c = "c1" THEN Subscriber(seen)
                                   ELSE Subscriber(WS_CAPACITY)] :
             seen \in {0, WS_CAPACITY} }

\* SpecPublish: handle_inbound and handle_outbound calls in front of each of
\* these audiences
InitPublish ==
    /\ limits = [inbound |-> 1, failures |-> 0, messages |-> InboundMessages,
                 took |-> {0}, ticks |-> 0]
    /\ clock = 0
    /\ config = WithSlackToken(MakeConfig(None, None), Some(T_token))
    /\ sessions = <<>>
    /\ messages = <<>>
    /\ outbox = <<>>
    /\ events = Backlog
    /\ inb = [p \in InboundIds |-> IdleInvocation]
    /\ worker = [w \in WorkerIds |->
                   IF w = "w1"
                   THEN IdleWorker(start_outbox_worker(config.backend))
                   ELSE IdleWorker("absent")]
    /\ accepted = {}
    /\ failures = 0
    /\ probe = NoProbe
    /\ outb = [q \in OutboundIds |-> IdleOutbound]
    /\ ws \in Audiences
    /\ tg = NoPoller

\* a reply on the session's route and a message to a slack channel
PublishRequests(keys) ==
    { MakeOutbound(key, channel, None, peer_id, None) :
        key \in keys, channel \in {None, Some(T_slack)}, peer_id \in {Some(T_C9)} }

\* one call of each pipeline, and subscribers whose socket takes what is
\* written to it
NextPublish ==
    \/ \E msg \in limits.messages : HandleInbound(1, msg)
    \/ \E req \in PublishRequests(DOMAIN sessions) : HandleOutboundResolve(1, req)
    \/ HandleOutboundInsertMessage(1)
    \/ \E delivered \in BOOLEAN : HandleOutboundSend(1, delivered)
    \/ \E c \in DOMAIN ws : WsEvent(c, TRUE)

SpecPublish == InitPublish /\ [][NextPublish]_vars

\* --------------------------------------------- build_session_key on its own
\* probe holds the calls still to make (todo) and the calls made with the
\* keys they can return (done)
KeyCall(cfg, channel, account_id, peer_kind, peer_id, thread_id) ==
    [cfg |-> cfg, channel |-> channel, account_id |-> account_id,
     peer_kind |-> peer_kind, peer_id |-> peer_id, thread_id |-> thread_id]

SessionConfig(agent_id, dm_scope, identity_links) ==
    [agent_id |-> agent_id, dm_scope |-> dm_scope, main_key |-> T_Main,
     identity_links |-> identity_links]

NoLinks == <<>>

\* a link table: ann is slack's u1, telegram's u2 and anyone's T7
Links == [canonical \in {T_Ann} |-> <<T_slack_u1, T_telegram_u2, T_T7, <<>>, T_slack_>>]

\* a link table that lists t7 under two names
LinksTwice == [canonical \in {T_Ann, T_bob} |->
                 IF canonical = T_Ann THEN <<T_slack_u1, T_T7>> ELSE <<T_t7, T_telegram_u2>>]

DmScopes == {T_main, T_per_peer, T_per_channel_peer, T_per_account_channel_peer}

InitKeyWith(todos) ==
    /\ limits = [inbound |-> 0, failures |-> 0, messages |-> {}, took |-> {0}]
    /\ clock = 0
    /\ config = MakeConfig(None, None)
    /\ sessions = <<>>
    /\ messages = <<>>
    /\ outbox = <<>>
    /\ events = <<>>
    /\ inb = [p \in InboundIds |-> IdleInvocation]
    /\ worker = [w \in WorkerIds |-> IdleWorker("absent")]
    /\ accepted = {}
    /\ failures = 0
    /\ probe \in [todo : todos, done : {<<>>}]
    /\ outb = [q \in OutboundIds |-> IdleOutbound]
    /\ ws = [c \in ConnIds |-> NoConnection]
    /\ tg = NoPoller

\* a call of build_session_key
BuildSessionKey ==
    /\ probe.todo # <<>>
    /\ LET call == Head(probe.todo)
       IN  probe' = [todo |-> Tail(probe.todo),
                     done |-> Append(probe.done,
                                [call |-> call,
                                 keys |-> build_session_key(call.cfg, call.channel,
                                              call.account_id, call.peer_kind,
                                              call.peer_id, call.thread_id)])]
    /\ UNCHANGED <<clock, config, sessions, messages, outbox, events, inb, worker,
                   accepted, failures, limits, outb, ws, tg>>

NextKey == BuildSessionKey

\* one call, over every scope, with and without link table
KeyCalls ==
    { KeyCall(SessionConfig(T_Bot, dm_scope, identity_links), channel, account_id,
              peer_kind, peer_id, thread_id) :
        dm_scope \in DmScopes \cup {T_Per_Peer},
        identity_links \in {NoLinks, Links},
        channel \in {T_Slack_, T_telegram},
        account_id \in {None, Some(T_A1)},
        peer_kind \in {T_dm, T_DM, T_channel},
        peer_id \in {T_U1, T_u2_, T_zz, <<>>},
        thread_id \in {None, Some(T_T5), Some(<<" ">>), Some(<<>>)} }

InitKey == InitKeyWith({ <<call>> : call \in KeyCalls })

SpecKey == InitKey /\ [][NextKey]_vars

\* two calls whose tokens are written in one or another letter case, with or
\* without whitespace around them
CaseCalls ==
    { KeyCall(SessionConfig(agent_id, dm_scope, NoLinks), channel, account_id,
              peer_kind, peer_id, thread_id) :
        agent_id \in {T_Bot, T_bot_},
        dm_scope \in {T_per_account_channel_peer},
        channel \in {T_slack, T_Slack_},
        account_id \in {None, Some(T_A1), Some(T_a1_)},
        peer_kind \in {T_dm, T_DM, T_channel},
        peer_id \in {T_U1, T_u1_},
        thread_id \in {None, Some(T_T5), Some(T_t5_)} }

InitKeyCase == InitKeyWith({ <<a, b>> : a \in CaseCalls, b \in CaseCalls })

SpecKeyCase == InitKeyCase /\ [][NextKey]_vars

\* two direct messages under a link table
LinkCalls ==
    { KeyCall(SessionConfig(T_Bot, dm_scope, identity_links), channel, None,
              T_dm, peer_id, None) :
        dm_scope \in {T_main, T_per_peer, T_per_channel_peer},
        identity_links \in {Links, LinksTwice},
        channel \in {T_slack, T_telegram},
        peer_id \in {T_U1, T_u2_, T_T7, T_zz, <<>>, <<" ">>} }

InitKeyLinks ==
    InitKeyWith({ pair \in LinkCalls \X LinkCalls : pair[1].cfg = pair[2].cfg })

SpecKeyLinks == InitKeyLinks /\ [][NextKey]_vars

\* ----------------------------------------------- resolve_binding on its own
\* the binding registered at a position, with the tenant attributes of that
\* position
BindingAt(position, channel, account_id, peer_id) ==
    [channel |-> channel, account_id |-> account_id, peer_id |-> peer_id,
     business_profile_id |-> Some(<<"p", position>>),
     user_id |-> Some(<<"u", position>>),
     agent_id |-> Some(<<"a", position>>)]

BindingScopes ==
    [channel : {T_slack, T_telegram}, account_id : {None, Some(T_A1)},
     peer_id : {None, Some(T_U1)}]

\* the binding lists of a length
BindingLists(n) ==
    { [i \in 1..n |-> BindingAt(i, scopes[i].channel, scopes[i].account_id,
                                scopes[i].peer_id)] :
        scopes \in [1..n -> BindingScopes] }

InitBinding ==
    /\ limits = [inbound |-> 0, failures |-> 0, messages |-> {}, took |-> {0}]
    /\ clock = 0
    /\ config = MakeConfig(None, None)
    /\ sessions = <<>>
    /\ messages = <<>>
    /\ outbox = <<>>
    /\ events = <<>>
    /\ inb = [p \in InboundIds |-> IdleInvocation]
    /\ worker = [w \in WorkerIds |-> IdleWorker("absent")]
    /\ accepted = {}
    /\ failures = 0
    /\ \E n \in 0..MaxBindings :
         probe \in [bindings : BindingLists(n), channel : {T_slack},
                    account_id : {None, Some(T_A1), Some(T_A2)},
                    peer_id : {Some(T_U1), Some(T_C9)}, matched : {None}]
    /\ outb = [q \in OutboundIds |-> IdleOutbound]
    /\ ws = [c \in ConnIds |-> NoConnection]
    /\ tg = NoPoller

\* a call of resolve_binding
ResolveBinding ==
    /\ probe.matched = None
    /\ probe' = [probe EXCEPT !.matched =
                    Some(resolve_binding(probe.bindings, probe.channel,
                                         probe.account_id, probe.peer_id))]
    /\ UNCHANGED <<clock, config, sessions, messages, outbox, events, inb, worker,
                   accepted, failures, limits, outb, ws, tg>>

NextBinding == ResolveBinding

SpecBinding == InitBinding /\ [][NextBinding]_vars

\* ------------------------------------------------- sessions over time
\* direct messages, which all fall in the one main session, from peers and
\* accounts that different bindings match, and a message in a channel
SessionMessages ==
    { MakeInbound(T_U1, T_dm, Some(<<"7">>), <<>>),
      [MakeInbound(T_U1, T_dm, Some(<<"7">>), <<>>)
          EXCEPT !.account_id = Some(T_A2), !.thread_id = Some(T_ts2)],
      MakeInbound(T_C9, T_dm, None, <<>>),
      MakeInbound(T_C9, T_channel, Some(<<"8">>), <<>>) }

\* a configuration whose bindings give U1 one tenant and account A2 another
SessionsConfig ==
    [MakeConfig(None, None) EXCEPT
        !.bindings = << BindingAt(1, T_slack, None, Some(T_U1)),
                        BindingAt(2, T_slack, Some(T_A2), Some(T_U1)) >>]

\* SpecSessions: the stepwise pipeline on these messages, with time passing
InitSessions == InitWith([inbound |-> MaxInbound, failures |-> 0,
                          messages |-> SessionMessages, took |-> {0}, ticks |-> 0],
                         { SessionsConfig })

SpecSessions == InitSessions /\ [][NextPipeline]_vars

\* ------------------------------------- channels/telegram.rs, the poller
Digits == <<"0", "1", "2", "3", "4", "5", "6", "7", "8", "9">>

\* i64::to_string
RECURSIVE to_string(_)
to_string(n) ==
    IF n < 0 THEN <<"-">> \o to_string(0 - n)
    ELSE IF n < 10 THEN <<Digits[n + 1]>>
    ELSE to_string(n \div 10) \o <<Digits[(n % 10) + 1]>>

\* an update as Telegram sends it: its id and, when it is a new message or
\* channel post, the message (other kinds of update carry other fields)
TelegramMessage(chat_id, chat_type, message_id) ==
    [chat_id |-> chat_id, chat_type |-> chat_type, message_id |-> message_id]

TelegramUpdate(update_id, message) == [update_id |-> Some(update_id), message |-> message]

\* what an update may carry: a message in a private chat, one in a group, one
\* that lacks its message_id, or no message at all
UpdateBodies(n) ==
    { Some(TelegramMessage(Some(42), "private", Some(n + 6))),
      Some(TelegramMessage(Some(0 - 42), "supergroup", Some(n + 6))),
      Some(TelegramMessage(Some(42), "private", None)),
      None }

\* channels/telegram.rs lines 42-107, for a message without attachments
parse_telegram_update(update) ==
    IF ~IsSome(update.message) THEN None
    ELSE LET msg == Unwrap(update.message)
         IN  IF ~IsSome(msg.chat_id) \/ ~IsSome(msg.message_id) THEN None
             ELSE Some([inbound_id |-> to_string(Unwrap(msg.message_id)),
                        channel |-> T_telegram,
                        account_id |-> None,
                        peer_id |-> to_string(Unwrap(msg.chat_id)),
                        peer_kind |-> IF msg.chat_type = "private" THEN T_dm
                                      ELSE IF msg.chat_type = "channel" THEN T_channel
                                      ELSE <<"g", "r", "o", "u", "p">>,
                        thread_id |-> None,
                        message_id |-> Some(to_string(Unwrap(msg.message_id))),
                        sender_name |-> None,
                        text |-> Some(<<"h", "i">>),
                        attachments |-> <<>>,
                        timestamp |-> None])

\* a loop that moves the offset past the updates it could parse only
RECURSIVE poll_loop_parsed_only(_, _, _)
poll_loop_parsed_only(results, offset, sends) ==
    IF results = <<>> THEN [offset |-> offset, sends |-> sends]
    ELSE LET update == Head(results)
             parsed == parse_telegram_update(update)
         IN  poll_loop_parsed_only(Tail(results),
                 IF IsSome(update.update_id) /\ IsSome(parsed)
                 THEN Unwrap(update.update_id) + 1 ELSE offset,
                 IF IsSome(parsed)
                 THEN Append(sends, [update |-> update, msg |-> Unwrap(parsed)])
                 ELSE sends)

\* channels/telegram.rs lines 25-33: the loop over the updates of one answer;
\* the offset it leaves and the messages it sends on the channel, in order
RECURSIVE poll_loop(_, _, _)
poll_loop(results, offset, sends) ==
    IF results = <<>> THEN [offset |-> offset, sends |-> sends]
    ELSE LET update == Head(results)
             parsed == parse_telegram_update(update)
         IN  poll_loop(Tail(results),
                 IF IsSome(update.update_id) THEN Unwrap(update.update_id) + 1 ELSE offset,
                 IF IsSome(parsed)
                 THEN Append(sends, [update |-> update, msg |-> Unwrap(parsed)])
                 ELSE sends)

\* Telegram's getUpdates: a call with an offset confirms the updates below it,
\* which Telegram then drops; the answer holds the updates not yet confirmed,
\* by ascending id
Confirmed(confirmed, offset) == Max(confirmed, offset - 1)

RECURSIVE Unconfirmed(_, _)
Unconfirmed(updates, confirmed) ==
    IF updates = <<>> THEN <<>>
    ELSE IF Unwrap(Head(updates).update_id) > confirmed
    THEN <<Head(updates)>> \o Unconfirmed(Tail(updates), confirmed)
    ELSE Unconfirmed(Tail(updates), confirmed)

UpdateIds(results) == [k \in 1..Len(results) |-> Unwrap(results[k].update_id)]

\* lib.rs lines 100-115: the poller and the consumer are spawned when the
\* channel is enabled and has a bot token
start_telegram(telegram) ==
    IF telegram.enabled /\ IsSome(telegram.bot_token)
    THEN [NoPoller EXCEPT !.pc = "poll", !.receiver = "open"]
    ELSE NoPoller

WithTelegram(cfg, enabled, token) ==
    [cfg EXCEPT !.channels.telegram = [enabled |-> enabled, bot_token |-> token]]

\* someone writes to the bot, or something else happens that Telegram reports
TelegramReceives(body) ==
    /\ Len(tg.updates) < MaxUpdates
    /\ tg' = [tg EXCEPT !.updates = Append(@, TelegramUpdate(Len(tg.updates) + 1, body))]
    /\ UNCHANGED <<clock, config, sessions, messages, outbox, events, inb, worker,
                   accepted, failures, limits, probe, outb, ws>>

\* channels/telegram.rs lines 14-37: one turn of the loop whose request is
\* answered (a turn whose request fails, or is answered without "ok", changes
\* nothing).  A send on the channel fails when the consumer task is gone, and
\* the failure is dropped (let _ =, line 31)
TelegramPoll ==
    /\ tg.pc = "poll"
    /\ LET confirmed == Confirmed(tg.confirmed, tg.offset)
           results == Unconfirmed(tg.updates, confirmed)
           after == poll_loop(results, tg.offset, <<>>)
       IN  tg' = [tg EXCEPT
                    !.confirmed = confirmed,
                    !.offset = after.offset,
                    !.seen = @ \o UpdateIds(results),
                    !.chan = IF tg.receiver = "open" THEN @ \o after.sends ELSE @,
                    !.handed = IF tg.receiver = "open"
                               THEN @ \o UpdateIds([k \in 1..Len(after.sends) |->
                                                      after.sends[k].update])
                               ELSE @]
    /\ UNCHANGED <<clock, config, sessions, messages, outbox, events, inb, worker,
                   accepted, failures, limits, probe, outb, ws>>

\* lib.rs lines 108-114: the consumer takes a message from the channel and
\* runs handle_inbound on it; an error is logged and the loop goes on
TelegramConsume(stored) ==
    /\ tg.receiver = "open"
    /\ tg.chan # <<>>
    /\ LET item == Head(tg.chan)
           before == [sessions |-> sessions, messages |-> messages, outbox |-> outbox,
                      events |-> events, inv |-> IdleInvocation]
       IN  \E w \in IF stored THEN handle_inbound(before, config, item.msg, clock)
                    ELSE {hi_upsert_fails(before, item.msg)} :
              /\ sessions' = w.sessions
              /\ messages' = w.messages
              /\ outbox' = w.outbox
              /\ events' = w.events
              /\ tg' = [tg EXCEPT !.chan = Tail(@),
                                  !.results = Append(@, [update_id |-> Unwrap(item.update.update_id),
                                                         result |-> w.inv.result])]
    /\ UNCHANGED <<clock, config, inb, worker, accepted, failures, limits, probe,
                   outb, ws>>

\* the consumer task ends (a panic below handle_inbound): the receiver is
\* dropped with what it held
TelegramConsumerEnds ==
    /\ tg.receiver = "open"
    /\ tg' = [tg EXCEPT !.receiver = "closed", !.chan = <<>>]
    /\ UNCHANGED <<clock, config, sessions, messages, outbox, events, inb, worker,
                   accepted, failures, limits, probe, outb, ws>>

InitTelegram ==
    /\ limits = [inbound |-> 0, failures |-> 0, messages |-> {}, took |-> {0}, ticks |-> 0]
    /\ clock = 0
    /\ config = WithTelegram(MakeConfig(None, None), TRUE, Some(T_token))
    /\ sessions = <<>>
    /\ messages = <<>>
    /\ outbox = <<>>
    /\ events = <<>>
    /\ inb = [p \in InboundIds |-> IdleInvocation]
    /\ worker = [w \in WorkerIds |->
                   IF w = "w1"
                   THEN IdleWorker(start_outbox_worker(config.backend))
                   ELSE IdleWorker("absent")]
    /\ accepted = {}
    /\ failures = 0
    /\ probe = NoProbe
    /\ outb = [q \in OutboundIds |-> IdleOutbound]
    /\ ws = [c \in ConnIds |-> NoConnection]
    /\ tg = start_telegram(config.channels.telegram)

NextTelegram ==
    \/ \E body \in UpdateBodies(Len(tg.updates) + 1) : TelegramReceives(body)
    \/ TelegramPoll
    \/ \E stored \in BOOLEAN : TelegramConsume(stored)
    \/ TelegramConsumerEnds

SpecTelegram == InitTelegram /\ [][NextTelegram]_vars

\* ---------------------------------------------- upload_media on its own
\* what the network does for one attachment: the fetch fails, its body cannot
\* be read, the upload fails, the answer is not JSON, the JSON has no "url"
\* string, or the media store answers with a url
MediaOutcomes ==
    { [step |-> failed, url |-> <<>>] :
        failed \in {"fetch", "bytes", "upload", "json", "no_url"} }
      \cup { [step |-> "stored", url |-> u] : u \in {<<"s">>, <<"t">>} }

\* an attachment that comes out with its url blanked when rehoming failed
upload_attachment_blank(att, outcome) ==
    IF outcome.step = "stored"
    THEN [id |-> att.id, url |-> outcome.url, mime_type |-> att.mime_type,
          filename |-> Some(IF IsSome(att.filename) THEN Unwrap(att.filename) ELSE T_file),
          size |-> att.size]
    ELSE [att EXCEPT !.url = <<>>]

\* lib.rs lines 568-633: the body of the loop, for one attachment
upload_attachment(att, outcome) ==
    IF outcome.step = "stored"
    THEN [id |-> att.id, url |-> outcome.url, mime_type |-> att.mime_type,
          filename |-> Some(IF IsSome(att.filename) THEN Unwrap(att.filename) ELSE T_file),
          size |-> att.size]
    ELSE att

\* lib.rs lines 556-636 under given outcomes: the loop pushes one attachment
\* per input, in order
RECURSIVE upload_media_loop(_, _, _)
upload_media_loop(attachments, outcomes, out) ==
    IF attachments = <<>> THEN out
    ELSE upload_media_loop(Tail(attachments), Tail(outcomes),
                           Append(out, upload_attachment(Head(attachments), Head(outcomes))))

upload_media_under(cfg, attachments, outcomes) ==
    IF ~IsSome(cfg.backend.media_upload_url) THEN attachments
    ELSE upload_media_loop(attachments, outcomes, <<>>)

Attachment2 ==
    [id |-> Some(<<"F", "1">>), url |-> <<"v">>, mime_type |-> Some(<<"i", "m", "g">>),
     filename |-> Some(<<"a", ".", "p", "n", "g">>), size |-> Some(10)]

Attachment3 ==
    [id |-> Some(<<"F", "2">>), url |-> <<"s">>, mime_type |-> None,
     filename |-> None, size |-> Some(0)]

\* the lists of at most two attachments, each with an outcome per attachment
MediaCalls ==
    LET atts == {Attachment1, Attachment2, Attachment3}
    IN  { [attachments |-> <<>>, outcomes |-> <<>>] }
        \cup { [attachments |-> <<a>>, outcomes |-> <<o>>] :
                 a \in atts, o \in MediaOutcomes }
        \cup { [attachments |-> <<a, b>>, outcomes |-> <<o, q>>] :
                 a \in atts, b \in atts, o \in MediaOutcomes, q \in MediaOutcomes }

\* probe holds a call of upload_media and, once it was made, what it returned
InitMedia ==
    /\ limits = [inbound |-> 0, failures |-> 0, messages |-> {}, took |-> {0}, ticks |-> 0]
    /\ clock = 0
    /\ config \in { MakeConfig(None, None), MakeConfig(None, Some(T_media)) }
    /\ sessions = <<>>
    /\ messages = <<>>
    /\ outbox = <<>>
    /\ events = <<>>
    /\ inb = [p \in InboundIds |-> IdleInvocation]
    /\ worker = [w \in WorkerIds |-> IdleWorker("absent")]
    /\ accepted = {}
    /\ failures = 0
    /\ probe \in [call : MediaCalls, returned : {None}]
    /\ outb = [q \in OutboundIds |-> IdleOutbound]
    /\ ws = [c \in ConnIds |-> NoConnection]
    /\ tg = NoPoller

UploadMedia ==
    /\ probe.returned = None
    /\ probe' = [probe EXCEPT !.returned =
                    Some(upload_media_under(config, probe.call.attachments,
                                            probe.call.outcomes))]
    /\ UNCHANGED <<clock, config, sessions, messages, outbox, events, inb, worker,
                   accepted, failures, limits, outb, ws, tg>>

NextMedia == UploadMedia

SpecMedia == InitMedia /\ [][NextMedia]_vars

\* ------------------------------------------------- lib.rs require_auth
\* the routes create_app puts behind require_auth, and the ones it leaves open
ProtectedRoutes ==
    {"/v1/messages/send", "/v1/messages/send-bulk", "/v1/sessions",
     "/v1/sessions/:session_key", "/v1/sessions/:session_key/messages",
     "/v1/inbound/ack", "/v1/ws"}

PublicRoutes ==
    {"/v1/health", "/v1/status", "/v1/channels/slack/events",
     "/v1/channels/whatsapp/inbound"}

\* a header value: its bytes, and whether they are all visible ASCII (what
\* HeaderValue::to_str asks for)
HeaderValue(bytes, visible) == [bytes |-> bytes, visible |-> visible]

\* HeaderValue::to_str(..).ok()
to_str(value) == IF value.visible THEN Some(value.bytes) ELSE None

\* the X-Agent-Ping-Token headers a request may carry: none, or a value
TokenHeaders ==
    {None} \cup { Some(HeaderValue(bytes, visible)) :
                    bytes \in {T_secret, T_wrong, T_token, <<>>},
                    visible \in BOOLEAN }

\* a middleware that lets every request with a token header through
require_auth_any_header(auth, header) ==
    IF IsSome(auth.token) /\ ~IsSome(header) THEN "401" ELSE "next"

\* lib.rs lines 142-157: "next" when the request goes on to its handler
require_auth(auth, header) ==
    IF IsSome(auth.token)
    THEN LET text == IF IsSome(header) THEN to_str(Unwrap(header)) ELSE None
         IN  IF text # Some(Unwrap(auth.token)) THEN "401" ELSE "next"
    ELSE "next"

HttpRequests == [route : ProtectedRoutes \cup PublicRoutes, header : TokenHeaders]

\* probe holds the requests still to come (todo) and the ones answered (done)
InitAuth ==
    /\ limits = [inbound |-> 0, failures |-> 0, messages |-> {}, took |-> {0}]
    /\ clock = 0
    /\ config \in { MakeConfig(None, None),
                    WithAuthToken(MakeConfig(None, None), Some(T_secret)),
                    WithAuthToken(MakeConfig(None, None), Some(<<>>)) }
    /\ sessions = <<>>
    /\ messages = <<>>
    /\ outbox = <<>>
    /\ events = <<>>
    /\ inb = [p \in InboundIds |-> IdleInvocation]
    /\ worker = [w \in WorkerIds |-> IdleWorker("absent")]
    /\ accepted = {}
    /\ failures = 0
    /\ probe \in [todo : { <<a, b>> : a \in HttpRequests, b \in HttpRequests },
                  done : {<<>>}]
    /\ outb = [q \in OutboundIds |-> IdleOutbound]
    /\ ws = [c \in ConnIds |-> NoConnection]
    /\ tg = NoPoller

\* the router takes a request: through require_auth when the route is one of
\* authed_routes, straight to the handler otherwise
HttpRequest ==
    /\ probe.todo # <<>>
    /\ LET req == Head(probe.todo)
           verdict == IF req.route \in ProtectedRoutes
                      THEN require_auth(config.auth, req.header)
                      ELSE "next"
       IN  probe' = [todo |-> Tail(probe.todo),
                     done |-> Append(probe.done,
                                [req |-> req,
                                 handled |-> (verdict = "next"),
                                 status |-> IF verdict = "next" THEN "handler" ELSE "401"])]
    /\ UNCHANGED <<clock, config, sessions, messages, outbox, events, inb, worker,
                   accepted, failures, limits, outb, ws, tg>>

NextAuth == HttpRequest

SpecAuth == InitAuth /\ [][NextAuth]_vars

\* ------------------------------------------------ compute_backoff on its own
\* a call of compute_backoff on any retry count of the range
InitBackoff ==
    /\ limits = [inbound |-> 0, failures |-> 0, messages |-> {}, took |-> {0}]
    /\ clock = 0
    /\ config = MakeConfig(None, None)
    /\ sessions = <<>>
    /\ messages = <<>>
    /\ outbox = <<>>
    /\ events = <<>>
    /\ inb = [p \in InboundIds |-> IdleInvocation]
    /\ worker = [w \in WorkerIds |-> IdleWorker(IF w = "w1" THEN "returned" ELSE "absent")]
    /\ accepted = {}
    /\ failures = 0
    /\ probe \in [retry_count : -BackoffRange..BackoffRange, delay : {-1}]
    /\ outb = [q \in OutboundIds |-> IdleOutbound]
    /\ ws = [c \in ConnIds |-> NoConnection]
    /\ tg = NoPoller

ComputeBackoff ==
    /\ probe.delay = -1
    /\ probe' = [probe EXCEPT !.delay = compute_backoff(probe.retry_count)]
    /\ UNCHANGED <<clock, config, sessions, messages, outbox, events, inb, worker,
                   accepted, failures, limits, outb, ws, tg>>

NextBackoff == ComputeBackoff

SpecBackoff == InitBackoff /\ [][NextBackoff]_vars

\* --------------------------------------------- claim_outbox_batch on its own
StoredStatuses == {"pending", "sending", "delivered", "failed"}

\* a row as the store may hold it: a failed row carries a retry count and an
\* error, as mark_outbox_failed writes them
StoredRow(id, status, next_attempt_at, created_at) ==
    [id |-> id, payload |-> [index |-> id], status |-> status,
     retry_count |-> IF status = "failed" THEN id ELSE 0,
     next_attempt_at |-> next_attempt_at,
     last_error |-> IF status = "failed" THEN Some(DispatchError(None)) ELSE None,
     created_at |-> created_at]

\* the time of the first call, in ms, and the seconds the rows may carry: a
\* row is due at the second of the call or at the next one
ClaimNow == i64_to_datetime(1) + HalfSecond
ClaimSeconds == {datetime_to_i64(ClaimNow), datetime_to_i64(ClaimNow) + 1}

\* tables of ClaimRows rows, in insertion order
ClaimTables ==
    { [i \in 1..ClaimRows |-> StoredRow(i, f[i][1], f[i][2], f[i][3])] :
        f \in { g \in [1..ClaimRows -> StoredStatuses \X ClaimSeconds \X ClaimSeconds] :
                  \A i \in 1..ClaimRows : \A j \in 1..ClaimRows :
                      i < j => g[i][3] <= g[j][3] } }

\* two calls of claim_outbox_batch by one task, on any table, with any limit
InitClaim ==
    /\ limits = [inbound |-> 0, failures |-> 0, messages |-> {}, took |-> {0}]
    /\ clock = ClaimNow
    /\ config = MakeConfig(None, None)
    /\ sessions = <<>>
    /\ messages = <<>>
    /\ outbox \in ClaimTables
    /\ events = <<>>
    /\ inb = [p \in InboundIds |-> IdleInvocation]
    /\ worker = [w \in WorkerIds |-> IdleWorker(IF w = "w1" THEN "returned" ELSE "absent")]
    /\ accepted = {}
    /\ failures = 0
    /\ probe \in [limit : 0..MaxClaimLimit, calls : {<<>>}]
    /\ outb = [q \in OutboundIds |-> IdleOutbound]
    /\ ws = [c \in ConnIds |-> NoConnection]
    /\ tg = NoPoller

\* a call: what it was given, what the table was, what it returned
ClaimOutboxBatch ==
    /\ Len(probe.calls) < 2
    /\ \E out \in claim_outbox_batch(outbox, clock, probe.limit) :
          /\ outbox' = out.table
          /\ probe' = [probe EXCEPT !.calls =
                          Append(@, [now |-> clock, limit |-> probe.limit,
                                     before |-> outbox, result |-> out.result])]
    /\ UNCHANGED <<clock, config, sessions, messages, events, inb, worker, accepted,
                   failures, limits, outb, ws, tg>>

\* a second passes between the calls
ClaimTick ==
    /\ clock = ClaimNow
    /\ clock' = clock + MsPerSecond
    /\ UNCHANGED <<config, sessions, messages, outbox, events, inb, worker, accepted,
                   failures, limits, probe, outb, ws, tg>>

NextClaim == ClaimOutboxBatch \/ ClaimTick

SpecClaim == InitClaim /\ [][NextClaim]_vars

\* ------------------------------------------------------ a worker that runs
\* start_outbox_worker loops for ever (lines 26-58): every step of a cycle
\* that can be taken is taken, and time passes.  The backend fails a bounded
\* number of POSTs and answers 2xx to the others.
WorkerFairness ==
    /\ \A w \in WorkerIds : WF_vars(WorkerClaimSelect(w))
    /\ \A w \in WorkerIds : WF_vars(WorkerClaimUpdate(w))
    /\ \A w \in WorkerIds :
           WF_vars(\E resp \in Responses, took \in limits.took : WorkerPost(w, resp, took))
    /\ \A w \in WorkerIds : WF_vars(WorkerSettle(w))
    /\ WF_vars(\E t \in AdvanceTargets : Advance(t))

SpecLive == InitRetry /\ [][Next]_vars /\ WorkerFairness

\* ======================================================== the properties
\* the rows of the message store that carry the dedupe key of msg
RowsOf(msg) ==
    { i \in 1..Len(messages) :
        messages[i].direction = "inbound" /\ messages[i].dedupe_key = DedupeKey(msg) }

\* the outbox items enqueued for the platform message msg
ItemsOf(msg) ==
    { i \in 1..Len(outbox) :
        /\ outbox[i].payload.channel = msg.channel
        /\ outbox[i].payload.peer_id = msg.peer_id
        /\ outbox[i].payload.message_id = msg.message_id }

\* the invocations that returned, for a message with a platform id
Finished == { p \in InboundIds : inb[p].pc = "done" /\ IsSome(inb[p].msg.message_id) }

\* C1: in every reachable state, also when handle_inbound invocations for the
\* same platform message interleave, the message store holds at most one
\* inbound row per non-null dedupe_key.
C1_OneRowPerDedupeKey ==
    \A i, j \in 1..Len(messages) :
        ( /\ messages[i].direction = "inbound"
          /\ messages[j].direction = "inbound"
          /\ IsSome(messages[i].dedupe_key)
          /\ messages[i].dedupe_key = messages[j].dedupe_key ) => i = j

AtDedupeHit(p) ==
    /\ inb[p].pc = "dedupe"
    /\ \E i \in 1..Len(messages) : messages[i].dedupe_key = DedupeKey(inb[p].msg)

\* C3: when handle_inbound finds that a message with the computed dedupe key
\* is already stored, it returns success and leaves the message store, the
\* outbox and the event stream unchanged; the only effect of the call is the
\* session upsert that ran before the check (the step that leads to the check
\* writes the session row and nothing else).
C3_DedupeHitFrame ==
    [][\A p \in InboundIds :
          /\ (AtDedupeHit(p) /\ inb'[p] # inb[p]) =>
                /\ inb'[p].pc = "done" /\ inb'[p].result = "ok"
                /\ messages' = messages /\ outbox' = outbox /\ events' = events
                /\ sessions' = sessions
          /\ (inb[p].pc = "idle" /\ inb'[p].pc = "dedupe") =>
                /\ messages' = messages /\ outbox' = outbox /\ events' = events
                /\ inb'[p].session_key \in DOMAIN sessions'
                /\ sessions'[inb'[p].session_key].updated_at = datetime_to_i64(clock)
                /\ \A k \in DOMAIN sessions : k # inb'[p].session_key =>
                       k \in DOMAIN sessions' /\ sessions'[k] = sessions[k]]_vars

\* a call returned on a dedupe hit: two calls for one platform message are
\* done, and the store holds one row, one outbox item and one event for them
C3_Witness ==
    /\ \A p \in InboundIds : inb[p].pc = "done" /\ IsSome(inb[p].msg.message_id)
    /\ Len(messages) = 1 /\ Len(outbox) = 1 /\ Len(events) = 1
    /\ DOMAIN sessions # {}

OutboxStatuses == {"pending", "sending", "delivered", "failed"}

StatusMoves ==
    { <<"pending", "sending">>, <<"failed", "sending">>,
      <<"sending", "delivered">>, <<"sending", "failed">> }

\* the rows a worker holds in the batch it is working through
InBatch(w) == { worker[w].batch[k].id : k \in 1..Len(worker[w].batch) }

\* C5: every outbox item's status is always one of pending, sending,
\* delivered, failed; an item is created pending, and under the single worker
\* its status changes only along pending->sending, failed->sending,
\* sending->delivered and sending->failed.  A delivered item is never claimed,
\* re-sent or modified again.
C5_StatusMachine ==
    /\ [](\A i \in 1..Len(outbox) : outbox[i].status \in OutboxStatuses)
    /\ [](\A w \in WorkerIds : \A i \in InBatch(w) : outbox[i].status # "delivered")
    /\ [][/\ Len(outbox') >= Len(outbox)
          /\ \A i \in 1..Len(outbox') :
                IF i > Len(outbox)
                THEN outbox'[i].status = "pending"
                ELSE /\ outbox'[i].status # outbox[i].status =>
                            <<outbox[i].status, outbox'[i].status>> \in StatusMoves
                     /\ outbox[i].status = "delivered" => outbox'[i] = outbox[i]]_vars

\* one item is delivered, another went round the retry loop (failed, claimed
\* again) and is being sent
C5_Witness ==
    \E i, j \in 1..Len(outbox) :
        /\ outbox[i].status = "delivered"
        /\ outbox[j].status = "sending" /\ outbox[j].retry_count >= 1

\* the worker w settles the dispatch of a POST the backend did not answer 2xx
FailedAttempt(w) ==
    /\ worker[w].pc = "responded"
    /\ worker'[w] # worker[w]
    /\ ~Answered2xx(worker[w].resp)

ClaimedBackoff(r) ==
    LET m == IF r >= 1 THEN r ELSE 1
        e == IF m - 1 <= 8 THEN m - 1 ELSE 8
        d == 5 * 2^e
    IN  IF d <= 300 THEN d ELSE 300

\* compute_backoff has been called and has returned
Computed == probe.delay # NoProbe.delay

\* C8: for every integer retry count r, compute_backoff(r) equals
\* min(300, 5 * 2^min(max(r,1)-1, 8)) seconds: 5, 10, 20, 40, 80 seconds for
\* r = 1..5, 300 seconds for r = 7, 8, 9, 10 and every larger r, and 5 seconds
\* for every r <= 0; it is non-decreasing in r and strictly increasing over
\* r = 1, 2, 3.
C8_BackoffTable ==
    Computed =>
        LET r == probe.retry_count
            d == probe.delay
        IN  /\ d = ClaimedBackoff(r)
            /\ r \in 1..5 => d = <<5, 10, 20, 40, 80>>[r]
            /\ r >= 7 => d = 300
            /\ r <= 0 => d = 5
            /\ r > -BackoffRange => compute_backoff(r - 1) <= d
            /\ r \in {2, 3} => compute_backoff(r - 1) < d

\* the call with the largest retry count of the range returned the cap
C8_Witness == Computed /\ probe.retry_count = BackoffRange /\ probe.delay = 300

\* C9 as stated: the 300-second cap takes effect from the 8th retry onward:
\* the delay for every retry count from 1 to 7 is below 300 seconds, and the
\* delay for every retry count of 8 or more is exactly 300 seconds.
C9_CapFromEighth ==
    Computed =>
        /\ probe.retry_count \in 1..7 => probe.delay < 300
        /\ probe.retry_count >= 8 => probe.delay = 300

\* C9 as the code has it: the cap takes effect from the 7th retry onward:
\* the delay for every retry count from 1 to 6 is below 300 seconds, and the
\* delay for every retry count of 7 or more is exactly 300 seconds.
C9_CapFromSeventh ==
    Computed =>
        /\ probe.retry_count \in 1..6 => probe.delay < 300
        /\ probe.retry_count >= 7 => probe.delay = 300

\* the call for the 7th retry returned the cap
C9_Witness == Computed /\ probe.retry_count = 7 /\ probe.delay = 300

Parked(i) == outbox[i].status = "failed" /\ outbox[i].retry_count >= 10

\* C11: reaching the maximum retry count is a terminal failure: once an item
\* has been parked with retry_count >= 10, the worker never claims it or POSTs
\* it to the backend again, and its retry_count stays at the value it had when
\* parked.
C11_ParkedIsTerminal ==
    [][\A i \in 1..Len(outbox) :
          Parked(i) =>
              /\ outbox'[i] = outbox[i]
              /\ \A w \in WorkerIds :
                     \A k \in 1..Len(worker'[w].batch) : worker'[w].batch[k].id # i]_vars

\* the calls of claim_outbox_batch made so far
ClaimCalls == { probe.calls[k] : k \in 1..Len(probe.calls) }

\* the ids of the rows a call returned
ReturnedIds(c) == { c.result[k].id : k \in 1..Len(c.result) }

\* the rows that were eligible when the call c was made: stored pending or
\* failed, and due at the call's time
DueIds(c) ==
    { i \in 1..Len(c.before) :
        /\ c.before[i].status \in {"pending", "failed"}
        /\ c.before[i].next_attempt_at <= c.now \div 1000 }

TableAfter(k) == IF k < Len(probe.calls) THEN probe.calls[k + 1].before ELSE outbox

\* C13: within one process the outbox claim is exhaustive and exclusive:
\* claiming a batch of size K from a pool of more than K due pending items
\* leaves exactly K items stored as sending (with last_error cleared) and the
\* others untouched, and a second claim call at the same time returns only the
\* remaining items, never one that the first call returned.
C13_ClaimExhaustiveExclusive ==
    /\ \A k \in 1..Len(probe.calls) :
          LET c == probe.calls[k]
          IN  /\ Cardinality(DueIds(c)) > c.limit =>
                     Cardinality(ReturnedIds(c)) = c.limit
              /\ \A i \in 1..Len(c.before) :
                     TableAfter(k)[i] =
                         IF i \in ReturnedIds(c)
                         THEN [c.before[i] EXCEPT !.status = "sending",
                                                  !.last_error = None]
                         ELSE c.before[i]
    /\ Len(probe.calls) = 2 =>
          /\ ReturnedIds(probe.calls[1]) \cap ReturnedIds(probe.calls[2]) = {}
          /\ probe.calls[2].now = probe.calls[1].now =>
                 ReturnedIds(probe.calls[2]) \subseteq
                     DueIds(probe.calls[1]) \ ReturnedIds(probe.calls[1])

\* three due pending rows, a first call with limit 2 that took two of them,
\* and a second call at the same time that returned the third
C13_Witness ==
    /\ Len(probe.calls) = 2
    /\ probe.calls[2].now = probe.calls[1].now
    /\ probe.calls[1].limit = 2
    /\ \A i \in 1..Len(probe.calls[1].before) :
           i \in DueIds(probe.calls[1]) /\ probe.calls[1].before[i].status = "pending"
    /\ Cardinality(ReturnedIds(probe.calls[1])) = 2
    /\ ReturnedIds(probe.calls[2]) = DueIds(probe.calls[1]) \ ReturnedIds(probe.calls[1])
    /\ ReturnedIds(probe.calls[2]) # {}

\* C14: every record returned by claim_outbox_batch reports status sending,
\* i.e. the returned records show the status the claim just gave them rather
\* than the status they had before the claim.
C14_ReturnedAsSending ==
    \A c \in ClaimCalls :
        \A k \in 1..Len(c.result) : c.result[k].status = "sending"

\* C15: if no backend webhook is configured the outbox worker does nothing: it
\* never claims, dispatches or modifies any outbox item, so every item
\* enqueued by the inbound pipeline stays pending with retry_count 0 for ever.
C15_NoWebhookNoWorker ==
    /\ [](config.backend.webhook_url = None =>
             /\ \A i \in 1..Len(outbox) :
                    /\ outbox[i].status = "pending"
                    /\ outbox[i].retry_count = 0
                    /\ outbox[i].last_error = None
             /\ \A w \in WorkerIds : worker[w].batch = <<>>
             /\ accepted = {})
    /\ [][config.backend.webhook_url = None =>
             \A i \in 1..Len(outbox) : outbox'[i] = outbox[i]]_vars

\* no webhook, two items enqueued, and both have fallen due
C15_Witness ==
    /\ config.backend.webhook_url = None
    /\ Len(outbox) = 2
    /\ \A i \in 1..Len(outbox) : outbox[i].next_attempt_at <= clock \div 1000

\* the invocations that enqueued an outbox item
Enqueuers == { p \in InboundIds : inb[p].pc = "done" /\ inb[p].outbox_row > 0 }

\* the time, in ms, the item enqueued by p was scheduled for
ScheduledFor(p) == inb[p].enqueued_at + config.queue.debounce_ms

\* a worker holds the item r in the batch of the poll cycle it is running
Claimed(w, r) == \E k \in 1..Len(worker[w].batch) : worker[w].batch[k].id = r

\* C16, the stored value: an outbox item enqueued by handle_inbound at time t
\* is stored with next_attempt_at = t + the configured debounce interval.
C16_StoredDue ==
    \A p \in Enqueuers :
        outbox[inb[p].outbox_row].retry_count = 0 =>
            outbox[inb[p].outbox_row].next_attempt_at * 1000 = ScheduledFor(p)

\* C16, the claim: the worker never claims the item or POSTs it to the backend
\* in a poll cycle that starts before that time.
C16_NoEarlyClaim ==
    \A p \in Enqueuers : \A w \in WorkerIds :
        Claimed(w, inb[p].outbox_row) => worker[w].now >= ScheduledFor(p)

\* C16: an outbox item enqueued by handle_inbound at time t is stored with
\* next_attempt_at = t + the configured debounce interval, and the worker
\* never claims it or POSTs it to the backend in a poll cycle that starts
\* before that time.
C16_DebounceRespected == C16_StoredDue /\ C16_NoEarlyClaim

\* table' is table with one row appended
GrewByOne(before, after) ==
    /\ Len(after) = Len(before) + 1
    /\ \A i \in 1..Len(before) : after[i] = before[i]

\* the dedupe key of a message: channel:peer_id:message_id, or null
ExpectedDedupeKey(msg) ==
    IF msg.message_id = <<>> THEN <<>>
    ELSE << msg.channel \o <<":">> \o msg.peer_id \o <<":">> \o msg.message_id[1] >>

\* what a step of the invocation p does, by the place it was at
C17_Step(p) ==
    CASE inb[p].pc = "idle" ->
            /\ inb'[p].pc \in {"dedupe", "insert_message"}
            /\ inb'[p].session_key \in DOMAIN sessions'
            /\ \A k \in DOMAIN sessions : k \in DOMAIN sessions'
            /\ Cardinality(DOMAIN sessions') <= Cardinality(DOMAIN sessions) + 1
            /\ messages' = messages /\ outbox' = outbox /\ events' = events
      [] inb[p].pc = "dedupe" /\ ~AtDedupeHit(p) ->
            /\ inb'[p].pc = "insert_message"
            /\ sessions' = sessions
            /\ messages' = messages /\ outbox' = outbox /\ events' = events
      [] inb[p].pc = "insert_message" ->
            /\ inb'[p].pc = "insert_outbox"
            /\ GrewByOne(messages, messages')
            /\ LET row == messages'[Len(messages')]
               IN  /\ row.direction = "inbound"
                   /\ row.status = "received"
                   /\ row.dedupe_key = ExpectedDedupeKey(inb[p].msg)
                   /\ row.session_key = inb[p].session_key
            /\ sessions' = sessions /\ outbox' = outbox /\ events' = events
      [] inb[p].pc = "insert_outbox" ->
            /\ inb'[p].pc = "done" /\ inb'[p].result = "ok"
            /\ GrewByOne(outbox, outbox')
            /\ LET item == outbox'[Len(outbox')]
               IN  /\ item.status = "pending"
                   /\ item.retry_count = 0
                   /\ item.last_error = <<>>
            /\ GrewByOne(events, events')
            /\ LET ev == events'[Len(events')]
               IN  /\ ev.event = "chat"
                   /\ ev.payload.direction = "inbound"
                   /\ ev.payload.message = messages[inb[p].message_row]
            /\ sessions' = sessions /\ messages' = messages
      [] OTHER -> TRUE

\* C17: for an inbound message that is not a duplicate and whose store writes
\* all succeed, handle_inbound performs, in this order, exactly one session
\* upsert, exactly one message insert (direction inbound, status received,
\* dedupe key channel:peer_id:message_id or null when the message has no
\* platform id), exactly one outbox insert (status pending, retry_count 0, no
\* error) and exactly one publication of a chat event with direction inbound;
\* the event is never published before the outbox item is stored.
C17_PipelineOrder ==
    /\ [](Len(events) <= Len(outbox) /\ Len(outbox) <= Len(messages))
    /\ [](Len(outbox) = Cardinality(Enqueuers) /\ Len(events) = Cardinality(Enqueuers))
    /\ [](Len(messages) =
            Cardinality({ p \in InboundIds : inb[p].pc = "insert_outbox" }
                            \cup Enqueuers))
    /\ [][\A p \in InboundIds : inb'[p] # inb[p] => C17_Step(p)]_vars

\* two messages went through the pipeline, one with a platform id and one
\* without: two rows (one with a dedupe key, one with null), two items, two
\* events
C17_Witness ==
    /\ \A p \in InboundIds : inb[p].pc = "done"
    /\ Len(messages) = 2 /\ Len(outbox) = 2 /\ Len(events) = 2
    /\ \E i, j \in 1..Len(messages) :
           messages[i].dedupe_key = <<>> /\ messages[j].dedupe_key # <<>>

\* the store and the event stream are as they were
StoreUnchanged ==
    /\ sessions' = sessions /\ messages' = messages
    /\ outbox' = outbox /\ events' = events

\* the invocations that take a step
Movers == { p \in InboundIds : inb'[p] # inb[p] }

\* C18: if the session upsert, the message insert or the outbox insert fails,
\* handle_inbound returns that error to its caller and performs none of the
\* later steps: after a failed session upsert nothing is stored, after a
\* failed message insert no outbox item is enqueued, and in all three cases no
\* chat event is published.
C18_FailureAborts ==
    /\ [](Len(events) = Len(outbox) /\ Len(outbox) <= Len(messages))
    /\ [](\A p \in InboundIds :
             inb[p].result = "err" => inb[p].pc = "done" /\ inb[p].outbox_row = 0)
    /\ [][/\ \A p \in InboundIds : inb[p].pc = "done" => inb'[p] = inb[p]
          /\ ~StoreUnchanged => \A p \in Movers : inb'[p].result # "err"
          /\ \A p \in Movers :
                /\ (inb[p].pc = "idle" /\ inb'[p].pc = "done") =>
                       inb'[p].result = "err" /\ StoreUnchanged
                /\ (inb[p].pc = "insert_message" /\ messages' = messages) =>
                       inb'[p].result = "err" /\ StoreUnchanged
                /\ (inb[p].pc = "insert_outbox" /\ outbox' = outbox) =>
                       inb'[p].result = "err" /\ StoreUnchanged]_vars

\* two calls returned an error: one after its message was stored, so that
\* there is a message with no outbox item and no event, the other before
C18_Witness ==
    /\ \A p \in InboundIds : inb[p].pc = "done" /\ inb[p].result = "err"
    /\ Len(messages) = 1 /\ Len(outbox) = 0 /\ Len(events) = 0
    /\ DOMAIN sessions # {}

\* the outbound invocations that got past the session lookup with a request
\* that names its channel
ExplicitOutbound ==
    { q \in OutboundIds : /\ outb[q].pc # "idle"
                          /\ IsSome(outb[q].req.channel)
                          /\ outb[q].error # "get_session" }

RequestRoute(req) ==
    [channel |-> Unwrap(req.channel), account_id |-> req.account_id,
     peer_id |-> req.peer_id, thread_id |-> None]

\* C19: when an outbound request names a channel and the session lookup did
\* not fail, the route is (request channel, request account, request peer, no
\* thread): the invocation never fails for want of a session or of a stored
\* route, the message row it stores carries the request's channel, account and
\* peer, and the adapter it calls is given the request's peer and no thread
\* other than the request's reply_to, whatever the sessions table holds.
C19_ExplicitChannelWins ==
    \A q \in ExplicitOutbound :
        LET o == outb[q]
        IN  /\ o.route = RequestRoute(o.req)
            /\ o.error \notin {"unknown session", "no route for session"}
            /\ o.message_row # 0 =>
                 /\ messages[o.message_row].direction = "outbound"
                 /\ messages[o.message_row].channel = Unwrap(o.req.channel)
                 /\ messages[o.message_row].account_id = o.req.account_id
                 /\ messages[o.message_row].peer_id = o.req.peer_id
            /\ \A i \in 1..Len(o.sent) :
                 /\ Some(o.sent[i].peer) = o.req.peer_id
                 /\ o.sent[i].thread = o.req.reply_to

\* a request that names its channel was stored and sent for a session whose
\* stored last route is another one
C19_Witness ==
    \E q \in ExplicitOutbound :
        LET o == outb[q]
        IN  /\ o.pc = "done" /\ o.result = "ok" /\ Len(o.sent) = 1
            /\ o.req.session_key \in DOMAIN sessions
            /\ IsSome(sessions[o.req.session_key].last_route)
            /\ route_from_last_route(Unwrap(sessions[o.req.session_key].last_route))
                 # o.route

\* a request that names no channel, for a session that the store does not
\* have or has with no last route
NoRouteFor(req) ==
    /\ ~IsSome(req.channel)
    /\ \/ req.session_key \notin DOMAIN sessions
       \/ ~IsSome(sessions[req.session_key].last_route)

\* C20: a call of handle_outbound with a request that names no channel, for a
\* session that is unknown or has no last route, returns an error at once and
\* changes nothing: no message row, no adapter call, no event.
C20_NoRouteNoEffect ==
    [][\A q \in OutboundIds :
         (outb[q].pc = "idle" /\ outb'[q].pc # "idle" /\ NoRouteFor(outb'[q].req)) =>
            /\ outb'[q].pc = "done"
            /\ outb'[q].result = "err"
            /\ outb'[q].message_row = 0
            /\ outb'[q].sent = <<>>
            /\ messages' = messages
            /\ events' = events
            /\ sessions' = sessions
            /\ outbox' = outbox]_vars

\* a reply was asked for on a session that exists and has no last route
C20_Witness ==
    \E q \in OutboundIds :
        /\ outb[q].pc = "done"
        /\ outb[q].error = "no route for session"
        /\ outb[q].req.session_key \in DOMAIN sessions
        /\ ~IsSome(outb[q].req.channel)

\* a reply was asked for on a session the store does not have
C20_UnknownSession ==
    \E q \in OutboundIds :
        /\ outb[q].pc = "done"
        /\ outb[q].error = "unknown session"
        /\ DOMAIN sessions # {}

\* a request that names its channel was stored and sent though the store has
\* no session of its key
C19_NoSession ==
    \E q \in ExplicitOutbound :
        /\ outb[q].pc = "done" /\ outb[q].result = "ok" /\ Len(outb[q].sent) = 1
        /\ outb[q].req.session_key \notin DOMAIN sessions

\* the session key handle_inbound gave a message (the link table is empty, so
\* build_session_key has one result)
InboundKey(msg) ==
    CHOOSE k \in build_session_key(config.session, msg.channel, msg.account_id,
                                   msg.peer_kind, msg.peer_id, msg.thread_id) : TRUE

\* the invocations of handle_inbound that have returned for a session key
ProcessedFor(key) ==
    { p \in InboundIds : inb[p].pc = "done" /\ InboundKey(inb[p].msg) = key }

\* the message most recently processed for the key: invocations are numbered
\* in the order they run
LastProcessed(key) ==
    inb[CHOOSE p \in ProcessedFor(key) : \A r \in ProcessedFor(key) : r <= p].msg

InboundRoute(msg) ==
    [channel |-> msg.channel, account_id |-> msg.account_id,
     peer_id |-> Some(msg.peer_id), thread_id |-> msg.thread_id]

\* a call of handle_outbound whose session lookup succeeded, with a request
\* that names no channel, for a key that inbound messages were processed for
RepliesOnRoute(q) ==
    /\ outb[q].pc = "idle" /\ outb'[q].pc # "idle"
    /\ ~IsSome(outb'[q].req.channel)
    /\ outb'[q].error # "get_session"
    /\ ProcessedFor(outb'[q].req.session_key) # {}

OutboundEvents(q) ==
    { i \in 1..Len(events) : /\ events[i].event = "chat"
                             /\ events[i].payload.direction = "outbound"
                             /\ events[i].payload.message.id = outb[q].message_row }

\* C22: handle_outbound stores the outbound row (direction outbound, status
\* queued) before it calls the channel adapter, calls it at most once, and
\* publishes one chat event of direction outbound exactly when the adapter
\* reported success; when the send fails (adapter error, unsupported channel,
\* missing peer or token) the row stays, no event is published and the caller
\* gets the error.
C22_StoreThenSend ==
    /\ [](\A q \in OutboundIds :
            LET o == outb[q]
            IN  /\ Len(o.sent) <= 1
                /\ (o.pc = "send" \/ o.sent # <<>> \/ o.result = "ok") =>
                     /\ o.message_row \in 1..Len(messages)
                     /\ messages[o.message_row].direction = "outbound"
                     /\ messages[o.message_row].status = "queued"
                /\ o.result = "ok" => o.pc = "done" /\ Len(o.sent) = 1
                /\ IF o.result = "ok" THEN Cardinality(OutboundEvents(q)) = 1
                   ELSE o.message_row # 0 => OutboundEvents(q) = {}
                /\ (o.pc = "done" /\ o.result # "ok") =>
                     o.result = "err" /\ o.error # "")
    /\ [][\A q \in OutboundIds :
            outb'[q].sent # outb[q].sent =>
                /\ outb[q].pc = "send"
                /\ outb[q].message_row \in 1..Len(messages)
                /\ messages' = messages]_vars

\* the adapter was called and failed: the row is there, no event went out
C22_Witness ==
    \E q \in OutboundIds :
        /\ outb[q].pc = "done" /\ outb[q].result = "err"
        /\ outb[q].error = "channel adapter"
        /\ Len(outb[q].sent) = 1
        /\ messages[outb[q].message_row].status = "queued"
        /\ OutboundEvents(q) = {}

\* a request for a channel without adapter left its row and an error
C22_Unsupported ==
    \E q \in OutboundIds :
        /\ outb[q].pc = "done" /\ outb[q].error = "unsupported channel"
        /\ outb[q].message_row \in 1..Len(messages)
        /\ outb[q].sent = <<>>

\* the broadcast events a connection wrote to its socket
IsForwarded(m) == m.kind = "event"
EventsOut(k) == SelectSeq(k.out, IsForwarded)

\* C23: while a subscriber connection is unauthorized no broadcast event is
\* written to it, whatever is published and whatever subscribe or ping
\* commands it sent.
C23_UnauthorizedGetsNothing ==
    [][\A c \in ConnIds :
         (ws[c].pc = "open" /\ ~ws[c].authorized) =>
             EventsOut(ws'[c]) = EventsOut(ws[c])]_vars

\* an unauthorized connection sent a ping or a subscribe, took every event
\* that was published since it connected, and got none of them
C23_Witness ==
    \E c \in ConnIds :
        /\ ws[c].pc = "open" /\ ~ws[c].authorized
        /\ ws[c].commands >= 2 /\ ws[c].last.type \in {"subscribe", "ping"}
        /\ ws[c].subscribed_at = 0 /\ ws[c].cursor = Len(events)
        /\ Len(events) = MaxPublished
        /\ EventsOut(ws[c]) = <<>>

\* C24: an event published while the connection was unauthorized is dropped
\* for it and not queued: no event of the stream up to the point where the
\* connection became authorized is ever written to it.
C24_DroppedNotQueued ==
    \A c \in ConnIds :
        \A i \in 1..Len(ws[c].out) :
            ws[c].out[i].kind = "event" => ws[c].out[i].index > ws[c].authorized_at

\* the step handled a command
Handled(c) == ws'[c].commands = ws[c].commands + 1

\* C25: a connection starts authorized iff no secret is configured; it
\* becomes authorized only by a connect command whose token is the secret; a
\* connect command with a missing or wrong token closes the connection and
\* does not authorize it; an authorized connection stays authorized.
C25_AuthorizationMachine ==
    /\ [](\A c \in ConnIds :
            (ws[c].pc # "none" /\ ws[c].commands = 0) =>
                ws[c].authorized = ~IsSome(config.auth.token))
    /\ [][\A c \in ConnIds :
            ws[c].pc # "none" =>
                /\ ws[c].authorized => ws'[c].authorized
                /\ (~ws[c].authorized /\ ws'[c].authorized) =>
                     /\ Handled(c)
                     /\ ws'[c].last.type = "connect"
                     /\ IsSome(config.auth.token)
                     /\ ws'[c].last.token = config.auth.token
                /\ (/\ Handled(c)
                    /\ ws'[c].last.type = "connect"
                    /\ IsSome(config.auth.token)
                    /\ ws'[c].last.token # config.auth.token) =>
                     /\ ws'[c].pc = "closed"
                     /\ ws'[c].authorized = ws[c].authorized
                     /\ ws'[c].out = Append(ws[c].out, CloseFrame)]_vars

\* with a secret configured, a connection was authorized by a connect command
\* and is still authorized and open after another command
C25_Witness ==
    \E c \in ConnIds :
        /\ IsSome(config.auth.token)
        /\ ws[c].pc = "open" /\ ws[c].authorized
        /\ ws[c].commands >= 2 /\ ws[c].last.type # "connect"

\* a connect command with the secret in another letter case closed a
\* connection that was not authorized
C25_WrongToken ==
    \E c \in ConnIds :
        /\ ws[c].pc = "closed" /\ ~ws[c].authorized
        /\ ws[c].last.type = "connect" /\ ws[c].last.token = Some(T_wrong)

\* the step took the next event of the stream from the receiver
TookEvent(c) == ws[c].pc = "open" /\ ws'[c].cursor = ws[c].cursor + 1

\* C26: the allow-list of a connection is the list of the most recent
\* subscribe command, and none before any subscribe or after a subscribe
\* without list; an authorized connection with a list is sent exactly the
\* events whose name is in the list (none with an empty list), and one without
\* list is sent every event.
C26_SubscriptionFilter ==
    /\ [](\A c \in ConnIds : ws[c].commands = 0 => ws[c].subscriptions = None)
    /\ [][\A c \in ConnIds :
            /\ ws'[c].subscriptions =
                 IF Handled(c) /\ ws'[c].last.type = "subscribe"
                 THEN ws'[c].last.events ELSE ws[c].subscriptions
            /\ EventsOut(ws'[c]) # EventsOut(ws[c]) =>
                 /\ TookEvent(c)
                 /\ ws'[c].out =
                      Append(ws[c].out, Forwarded(events[ws'[c].cursor], ws'[c].cursor))
                 /\ IsSome(ws[c].subscriptions) =>
                      events[ws'[c].cursor].event \in Unwrap(ws[c].subscriptions)
            /\ (/\ TookEvent(c) /\ ws[c].authorized /\ ws'[c].pc = "open"
                /\ IsSome(ws[c].subscriptions) =>
                     events[ws'[c].cursor].event \in Unwrap(ws[c].subscriptions)) =>
                 EventsOut(ws'[c]) # EventsOut(ws[c])]_vars

\* a connection that was authorized all along and has the list [chat] took a
\* chat and a status event and was sent the chat event only
C26_Witness ==
    \E c \in ConnIds :
        /\ ws[c].pc = "open" /\ ws[c].authorized_at = 0 /\ ws[c].subscribed_at = 0
        /\ ws[c].subscriptions = Some({"chat"})
        /\ ws[c].cursor = Len(events)
        /\ \E i \in 1..Len(events) : events[i].event = "status"
        /\ Len(EventsOut(ws[c])) = 1
        /\ EventsOut(ws[c])[1].event = "chat"

\* the calls of build_session_key made so far
KeyDone == { probe.done[k] : k \in 1..Len(probe.done) }

RECURSIVE JoinColon(_)
JoinColon(parts) ==
    IF Len(parts) = 1 THEN parts[1] ELSE parts[1] \o Colon \o JoinColon(Tail(parts))

Trimmed(text) == TrimEnd(TrimStart(text))

\* the identities of the link table one of whose aliases is, once normalized,
\* the normalized peer id or its {channel}:{peer} form; none for an empty peer
IdentitiesOf(call) ==
    LET peer == normalize_token(call.peer_id)
        forms == {peer, JoinColon(<<normalize_token(call.channel), peer>>)}
        links == call.cfg.identity_links
    IN  IF peer = <<>> THEN {}
        ELSE { canonical \in DOMAIN links :
                 \E k \in 1..Len(links[canonical]) :
                     normalize_token(links[canonical][k]) \in forms }

\* the peer tokens a direct message can be keyed by
KeyPeers(call) ==
    IF call.cfg.dm_scope # T_main /\ IdentitiesOf(call) # {}
    THEN { normalize_token(canonical) : canonical \in IdentitiesOf(call) }
    ELSE { normalize_token(call.peer_id) }

\* the key shapes, for a direct message keyed by peer
KeyShape(call, peer) ==
    LET agent == normalize_token(call.cfg.agent_id)
        channel == normalize_token(call.channel)
        account == IF IsSome(call.account_id) THEN normalize_token(Unwrap(call.account_id))
                   ELSE T_default
        scope == call.cfg.dm_scope
    IN  IF call.peer_kind = T_dm
        THEN IF scope = T_per_peer
             THEN JoinColon(<<T_agent, agent, T_dm, peer>>)
             ELSE IF scope = T_per_channel_peer
             THEN JoinColon(<<T_agent, agent, channel, T_dm, peer>>)
             ELSE IF scope = T_per_account_channel_peer
             THEN JoinColon(<<T_agent, agent, channel, account, T_dm, peer>>)
             ELSE JoinColon(<<T_agent, agent, normalize_token(call.cfg.main_key)>>)
        ELSE IF IsSome(call.thread_id) /\ Trimmed(Unwrap(call.thread_id)) # <<>>
             THEN JoinColon(<<T_agent, agent, channel, call.peer_kind,
                              normalize_token(call.peer_id), T_thread,
                              normalize_token(Unwrap(call.thread_id))>>)
             ELSE JoinColon(<<T_agent, agent, channel, call.peer_kind,
                              normalize_token(call.peer_id)>>)

\* C27: build_session_key returns one key for its inputs: for peer kind dm
\* agent:{agent}:{main_key} under scope main and under any scope value it
\* does not know, agent:{agent}:dm:{peer} under per-peer,
\* agent:{agent}:{channel}:dm:{peer} under per-channel-peer,
\* agent:{agent}:{channel}:{account or default}:dm:{peer} under
\* per-account-channel-peer; for any other peer kind
\* agent:{agent}:{channel}:{peer-kind}:{peer}, followed by :thread:{thread}
\* exactly when a thread id is given whose trimmed value is not empty.
C27_KeyShapes ==
    \A d \in KeyDone :
        /\ Cardinality(d.keys) = 1
        /\ d.keys = { KeyShape(d.call, peer) : peer \in KeyPeers(d.call) }

\* a direct message under per-account-channel-peer with no account has the
\* account token default in its key
C27_Witness ==
    \E d \in KeyDone :
        /\ d.call.peer_kind = T_dm /\ d.call.cfg.dm_scope = T_per_account_channel_peer
        /\ d.call.account_id = None /\ d.call.peer_id = T_u2_
        /\ d.call.channel = T_Slack_ /\ d.call.cfg.identity_links = NoLinks
        /\ d.keys = {<<"a", "g", "e", "n", "t", ":", "b", "o", "t", ":", "s", "l", "a", "c", "k", ":", "d", "e", "f", "a", "u", "l", "t", ":", "d", "m", ":", "u", "2">>}

\* a channel message with a blank thread id has no thread suffix in its key
C27_BlankThread ==
    \E d \in KeyDone :
        /\ d.call.peer_kind = T_channel /\ d.call.thread_id = Some(<<" ">>)
        /\ d.call.peer_id = T_U1 /\ d.call.channel = T_Slack_
        /\ d.keys = {<<"a", "g", "e", "n", "t", ":", "b", "o", "t", ":", "s", "l", "a", "c", "k", ":", "c", "h", "a", "n", "n", "e", "l", ":", "u", "1">>}

\* two texts that differ in letter case or surrounding whitespace only
SameText(x, y) == ToLowercase(Trimmed(x)) = ToLowercase(Trimmed(y))

SameOption(x, y) ==
    \/ x = None /\ y = None
    \/ IsSome(x) /\ IsSome(y) /\ SameText(Unwrap(x), Unwrap(y))

\* two calls with the same scope and link table whose tokens, the peer kind
\* left aside, differ in letter case or surrounding whitespace only
SameTokens(a, b) ==
    /\ a.cfg.dm_scope = b.cfg.dm_scope
    /\ a.cfg.identity_links = b.cfg.identity_links
    /\ SameText(a.cfg.main_key, b.cfg.main_key)
    /\ SameText(a.cfg.agent_id, b.cfg.agent_id)
    /\ SameText(a.channel, b.channel)
    /\ SameOption(a.account_id, b.account_id)
    /\ SameText(a.peer_id, b.peer_id)
    /\ SameOption(a.thread_id, b.thread_id)

\* C28: two calls of build_session_key whose agent id, channel, account id,
\* peer kind, peer id and thread id differ in letter case or surrounding
\* whitespace only return the same key.
C28_CaseAndSpaceInsensitive ==
    \A a \in KeyDone, b \in KeyDone :
        (SameTokens(a.call, b.call) /\ SameText(a.call.peer_kind, b.call.peer_kind)) =>
            a.keys = b.keys

\* the same for two calls that have the very same peer kind
C28_SamePeerKind ==
    \A a \in KeyDone, b \in KeyDone :
        (SameTokens(a.call, b.call) /\ a.call.peer_kind = b.call.peer_kind) =>
            a.keys = b.keys

\* two calls that differ in case and whitespace in every token but the peer
\* kind got the same key
C28_SamePeerKindReached ==
    \E a \in KeyDone, b \in KeyDone :
        /\ SameTokens(a.call, b.call) /\ a.call.peer_kind = b.call.peer_kind
        /\ a.call.cfg.agent_id # b.call.cfg.agent_id
        /\ a.call.channel # b.call.channel
        /\ a.call.peer_id # b.call.peer_id
        /\ IsSome(a.call.account_id) /\ a.call.account_id # b.call.account_id
        /\ IsSome(a.call.thread_id) /\ a.call.thread_id # b.call.thread_id
        /\ a.keys = b.keys

\* C29: for a direct message under a scope other than main, with a link
\* table: a peer whose normalized id or {channel}:{peer} form is a normalized
\* alias of an identity is keyed by the normalized canonical name of that
\* identity (of one of them when the table lists the alias under several), so
\* aliases of one identity on two channels have the same per-peer key; a peer
\* that matches no alias, a peer whose id is empty, and a peer whose id is an
\* alias scoped to another channel are keyed by their own normalized id.
C29_IdentityLinks ==
    /\ \A d \in KeyDone :
         d.call.cfg.dm_scope # T_main =>
             LET ids == IdentitiesOf(d.call)
                 own == normalize_token(d.call.peer_id)
             IN  /\ Cardinality(ids) = 1 =>
                      d.keys = { KeyShape(d.call, normalize_token(c)) : c \in ids }
                 /\ ids # {} =>
                      /\ d.keys # {}
                      /\ d.keys \subseteq { KeyShape(d.call, normalize_token(c)) : c \in ids }
                 /\ ids = {} => d.keys = { KeyShape(d.call, own) }
                 /\ own = <<>> => ids = {}
                 /\ (d.call.channel = T_telegram /\ own = T_u1) => ids = {}
    /\ \A a \in KeyDone, b \in KeyDone :
         (/\ a.call.cfg = b.call.cfg /\ a.call.cfg.dm_scope = T_per_peer
          /\ a.call.channel # b.call.channel
          /\ IdentitiesOf(a.call) = IdentitiesOf(b.call)
          /\ Cardinality(IdentitiesOf(a.call)) = 1) =>
             a.keys = b.keys

\* u1 of slack and u2 of telegram, both aliases of ann, have the per-peer key
\* of ann
C29_Witness ==
    \E a \in KeyDone, b \in KeyDone :
        /\ a.call.cfg.identity_links = Links /\ a.call.cfg.dm_scope = T_per_peer
        /\ a.call.channel = T_slack /\ a.call.peer_id = T_U1
        /\ b.call.channel = T_telegram /\ b.call.peer_id = T_u2_
        /\ a.keys = {<<"a", "g", "e", "n", "t", ":", "b", "o", "t", ":", "d", "m", ":", "a", "n", "n">>}
        /\ b.keys = {<<"a", "g", "e", "n", "t", ":", "b", "o", "t", ":", "d", "m", ":", "a", "n", "n">>}

\* u1 of telegram is not slack's u1, a blank peer id is no one: own ids
C29_OwnId ==
    \E a \in KeyDone, b \in KeyDone :
        /\ a.call.cfg.identity_links = Links /\ a.call.cfg.dm_scope = T_per_peer
        /\ a.call.channel = T_telegram /\ a.call.peer_id = T_U1
        /\ a.keys = {<<"a", "g", "e", "n", "t", ":", "b", "o", "t", ":", "d", "m", ":", "u", "1">>}
        /\ b.call.channel = T_slack /\ b.call.peer_id = <<" ">>
        /\ b.keys = {<<"a", "g", "e", "n", "t", ":", "b", "o", "t", ":", "d", "m", ":">>}

\* the positions of the bindings that match the inbound message: same
\* channel, account and peer unset or equal to the message's
MatchingBindings ==
    { i \in 1..Len(probe.bindings) :
        /\ probe.bindings[i].channel = probe.channel
        /\ probe.bindings[i].account_id \in {None, probe.account_id}
        /\ probe.bindings[i].peer_id \in {None, probe.peer_id} }

\* 2 per set field
Specificity(i) ==
    2 * Cardinality({ f \in {"account_id", "peer_id"} : probe.bindings[i][f] # None })

\* the first of the matching bindings of maximal score
Winner ==
    CHOOSE i \in MatchingBindings :
        /\ \A j \in MatchingBindings : Specificity(j) <= Specificity(i)
        /\ \A j \in MatchingBindings : Specificity(j) = Specificity(i) => i <= j

\* C30: resolve_binding returns the tenant attributes of the first binding,
\* in list order, among the matching bindings of maximal score (2 per set
\* field among account id and peer id), and three absent attributes when no
\* binding matches.
C30_MostSpecificFirst ==
    IsSome(probe.matched) =>
        Unwrap(probe.matched) =
            IF MatchingBindings = {}
            THEN [business_profile_id |-> None, user_id |-> None, agent_id |-> None]
            ELSE [business_profile_id |-> Some(<<"p", Winner>>),
                  user_id |-> Some(<<"u", Winner>>),
                  agent_id |-> Some(<<"a", Winner>>)]

\* a channel binding, a channel+peer binding, a channel+account binding and
\* nothing more specific all match: the second one, registered before the
\* third of the same score, is returned
C30_Witness ==
    /\ IsSome(probe.matched)
    /\ Len(probe.bindings) = 3
    /\ MatchingBindings = {1, 2, 3}
    /\ Specificity(1) = 0 /\ Specificity(2) = 2 /\ Specificity(3) = 2
    /\ probe.bindings[2].peer_id # None /\ probe.bindings[3].account_id # None
    /\ Unwrap(probe.matched).agent_id = Some(<<"a", 2>>)

\* a channel+account+peer binding registered first beats the others
C30_FullScope ==
    /\ IsSome(probe.matched)
    /\ MatchingBindings = {1, 2, 3}
    /\ Specificity(1) = 4 /\ Specificity(2) = 2 /\ Specificity(3) = 0
    /\ Unwrap(probe.matched).agent_id = Some(<<"a", 1>>)

\* bindings are configured and none matches
C30_NoMatch ==
    /\ IsSome(probe.matched)
    /\ Len(probe.bindings) = 3 /\ MatchingBindings = {}
    /\ Unwrap(probe.matched).agent_id = None

\* the requests answered so far
Answered == { probe.done[k] : k \in 1..Len(probe.done) }

\* the request carries the configured token in its X-Agent-Ping-Token header
CarriesToken(req) ==
    /\ req.header # <<>>
    /\ req.header[1].visible
    /\ req.header[1].bytes = config.auth.token[1]

C31_MissingHeader ==
    /\ config.auth.token = <<T_secret>>
    /\ \E d \in Answered :
        /\ d.req.route \in ProtectedRoutes
        /\ d.req.header = <<>>
        /\ d.status = "401"

\* the ids of the rows a worker holds of a batch it claimed
HeldBy(w) ==
    IF worker[w].pc \in {"dispatch", "responded"}
    THEN { worker[w].batch[k].id : k \in 1..Len(worker[w].batch) }
    ELSE {}

\* a row left in sending that no worker holds
Stuck(i) ==
    /\ outbox[i].status = "sending"
    /\ \A w \in WorkerIds : i \notin HeldBy(w)

\* C32: a row in sending is changed only by the worker that holds it, when it
\* settles the attempt (to delivered or failed); a row left in sending by a
\* worker that stopped or whose status write failed stays as it is and is in
\* no batch a later poll cycle claims
C32_StuckInSending ==
    [][\A i \in 1..Len(outbox) :
          outbox[i].status = "sending" =>
            /\ outbox'[i] # outbox[i] =>
                 /\ \E w \in WorkerIds :
                      /\ worker[w].pc = "responded"
                      /\ Head(worker[w].batch).id = i
                 /\ outbox'[i].status \in {"delivered", "failed"}
            /\ Stuck(i) =>
                 /\ outbox'[i] = outbox[i]
                 /\ \A w \in WorkerIds :
                      worker'[w].pc # "absent" =>
                        \A k \in 1..Len(worker'[w].batch) : worker'[w].batch[k].id # i]_vars

\* a status write failed and was dropped: the row is in sending, it is due,
\* and the worker is back at the top of its loop
C32_Witness ==
    /\ worker["w1"].pc = "sleep"
    /\ failures > 0
    /\ \E i \in 1..Len(outbox) :
         /\ Stuck(i)
         /\ Eligible([outbox[i] EXCEPT !.status = "pending"], clock)

\* the worker stopped in the middle of a batch of two and was started again:
\* the row it had not come to is in sending while the first is delivered
C32_Abandoned ==
    /\ worker["w1"].pc = "sleep"
    /\ failures = 0
    /\ Len(outbox) = 2
    /\ outbox[1].created_at = outbox[2].created_at
    /\ \E i, j \in 1..2 : outbox[i].status = "delivered" /\ Stuck(j)

\* worker w runs the SELECT of claim_outbox_batch and finds rows
Selects(w) == worker[w].pc = "sleep" /\ worker'[w].pc = "claim_update"

BatchIds(b) == { b[k].id : k \in 1..Len(b) }

\* C33: all that keeps a row from being claimed twice is its status: a SELECT
\* returns no row that is marked sending, but a row another worker has
\* selected and not yet marked is returned by every SELECT a worker runs at
\* that moment, so that workers whose calls overlap are returned the same row
\* (C33_Witness is the run in which both POST it)
C33_ExclusionByStatusOnly ==
    /\ [](\A w, v \in WorkerIds :
            (w # v /\ worker[v].pc = "claim_update" /\ worker[w].pc = "sleep") =>
                \A k \in 1..Len(worker[v].batch) :
                    outbox[worker[v].batch[k].id] = worker[v].batch[k] =>
                        \A sel \in ClaimSelections(outbox, clock, OUTBOX_BATCH) :
                            \E n \in 1..Len(sel) : sel[n] = worker[v].batch[k].id)
    /\ [][\A w \in WorkerIds :
            Selects(w) =>
                \A i \in BatchIds(worker'[w].batch) :
                    outbox[i].status \in {"pending", "failed"}]_vars

\* both workers selected row 1 before either marked it sending, were both
\* returned it, and both POSTed it to the backend, which answered 200
C33_Witness ==
    /\ \A w \in WorkerIds :
         /\ worker[w].pc = "responded"
         /\ Head(worker[w].batch).id = 1
         /\ Head(worker[w].batch).status = "pending"
         /\ worker[w].resp = Some(200)
    /\ outbox[1].status = "sending"

\* the calls overlap: one worker is between its SELECT and its UPDATE when the
\* other selects the same row
C33_Overlap ==
    /\ \A w \in WorkerIds : worker[w].pc = "claim_update"
    /\ BatchIds(worker["w1"].batch) \cap BatchIds(worker["w2"].batch) # {}

\* a sequence that holds no value twice
NoRepeats(seq) == \A i, j \in 1..Len(seq) : seq[i] = seq[j] => i = j

Members(seq) == { seq[k] : k \in 1..Len(seq) }

\* C34: the poller's offset is past every update it was returned, parsed or
\* not, handed on or not, processed with or without error; so no update is
\* returned to it twice, none is sent on the channel twice, and handle_inbound
\* runs at most once for it
C34_OffsetPastObserved ==
    /\ \A k \in 1..Len(tg.seen) : tg.offset > tg.seen[k]
    /\ tg.seen # <<>> => tg.offset = tg.seen[Len(tg.seen)] + 1
    /\ NoRepeats(tg.seen)
    /\ NoRepeats(tg.handed)
    /\ Members(tg.handed) \subseteq Members(tg.seen)
    /\ NoRepeats([k \in 1..Len(tg.results) |-> tg.results[k].update_id])
    /\ \A k \in 1..Len(tg.results) : tg.results[k].update_id \in Members(tg.handed)

\* update 1 did not parse, update 2 was handed on and handle_inbound failed
\* for it; the poller has since asked Telegram for what follows update 2
C34_Witness ==
    /\ tg.seen = <<1, 2>>
    /\ tg.handed = <<2>>
    /\ tg.results = <<[update_id |-> 2, result |-> "err"]>>
    /\ tg.offset = 3
    /\ tg.confirmed = 2
    /\ messages = <<>>

\* an update that parsed could not be handed on: the consumer was gone
C34_NotHanded ==
    /\ tg.receiver = "closed"
    /\ tg.seen = <<1>>
    /\ tg.handed = <<>>
    /\ parse_telegram_update(tg.updates[1]) # None
    /\ tg.offset = 2

\* C35: upload_media returns as many attachments as it was given, in the same
\* order; each is the original when no media store is configured or its own
\* fetch or upload did not end with a url, and otherwise a copy with the same
\* id, mime type and size and the url the store returned; what happened to
\* another attachment plays no part
C35_RehomingPerItem ==
    probe.returned # None =>
        LET given == probe.call.attachments
            outcomes == probe.call.outcomes
            out == probe.returned[1]
        IN  /\ Len(out) = Len(given)
            /\ \A i \in 1..Len(given) :
                 IF config.backend.media_upload_url = None \/ outcomes[i].step # "stored"
                 THEN out[i] = given[i]
                 ELSE /\ out[i].id = given[i].id
                      /\ out[i].mime_type = given[i].mime_type
                      /\ out[i].size = given[i].size
                      /\ out[i].url = outcomes[i].url

\* a media store is configured; the first attachment's fetch failed and it is
\* returned as it was, the second was stored and carries the store's url
C35_Witness ==
    /\ config.backend.media_upload_url # None
    /\ probe.returned # None
    /\ probe.call.attachments = <<Attachment2, Attachment1>>
    /\ probe.call.outcomes[1].step = "fetch"
    /\ probe.call.outcomes[2] = [step |-> "stored", url |-> <<"s">>]
    /\ probe.returned[1][1] = Attachment2
    /\ probe.returned[1][2].url = <<"s">>
    /\ probe.returned[1][2].id = Attachment1.id

\* no media store: the list comes back as it was whatever the network would do
C35_NoStore ==
    /\ config.backend.media_upload_url = None
    /\ probe.returned = Some(probe.call.attachments)
    /\ Len(probe.call.attachments) = 2
    /\ probe.call.outcomes[1].step = "stored"

\* invocation p runs its upsert_session in this step
Upserts(p) == inb[p].pc = "idle" /\ inb'[p].pc # "idle"

\* the row upsert_session is to leave for the invocation that just ran it
UpsertedRow(inv) ==
    [session_key |-> inv.session_key,
     agent_id |-> IF inv.tenant.agent_id # <<>> THEN inv.tenant.agent_id[1]
                  ELSE config.session.agent_id,
     business_profile_id |-> inv.tenant.business_profile_id,
     user_id |-> inv.tenant.user_id,
     last_route |-> <<[channel |-> inv.msg.channel, account_id |-> inv.msg.account_id,
                       peer_id |-> inv.msg.peer_id, thread_id |-> inv.msg.thread_id]>>,
     dm_scope |-> config.session.dm_scope,
     identity_links |-> <<>>,
     created_at |-> IF inv.session_key \in DOMAIN sessions
                    THEN sessions[inv.session_key].created_at
                    ELSE inv.now \div MsPerSecond,
     updated_at |-> inv.now \div MsPerSecond]

\* C36: the session table has one row per key that handle_inbound derived;
\* the first upsert for a key creates the row, a later one replaces every
\* column but session_key and created_at by its own values, and no step
\* removes a row or touches the row of another key
C36_OneRowPerKey ==
    /\ [](\A p \in InboundIds :
            inb[p].pc \notin {"idle", "done"} =>
                /\ inb[p].session_key \in DOMAIN sessions
                /\ sessions[inb[p].session_key].session_key = inb[p].session_key)
    /\ [][/\ DOMAIN sessions \subseteq DOMAIN sessions'
          /\ \A p \in InboundIds :
               Upserts(p) =>
                 /\ DOMAIN sessions' = DOMAIN sessions \cup {inb'[p].session_key}
                 /\ sessions'[inb'[p].session_key] = UpsertedRow(inb'[p])
                 /\ \A k \in DOMAIN sessions \ {inb'[p].session_key} :
                      sessions'[k] = sessions[k]
          /\ (\A p \in InboundIds : ~Upserts(p)) => sessions' = sessions]_vars

\* two messages were processed for the main session one after the other, the
\* second a second later from an account another binding matches: the row
\* has the first one's created_at and the second one's tenant, route and
\* updated_at, and it is the only row
C36_Witness ==
    /\ inb[1].pc = "done" /\ inb[2].pc = "done"
    /\ inb[1].msg.account_id = <<>>
    /\ inb[2].msg.account_id = <<T_A2>>
    /\ DOMAIN sessions = {InboundKey(inb[1].msg)}
    /\ LET row == sessions[InboundKey(inb[1].msg)]
       IN  /\ row.created_at = 0
           /\ row.updated_at > 0
           /\ row.user_id = BindingAt(2, T_slack, <<T_A2>>, <<T_U1>>).user_id
           /\ row.last_route[1].account_id = <<T_A2>>

\* C37: a message row, once stored, is never changed or removed: the table
\* only grows at its end, an inbound row has status received and an outbound
\* row status queued, whatever became of the send
C37_MessagesImmutable ==
    /\ [](\A i \in 1..Len(messages) :
            /\ messages[i].id = i
            /\ messages[i].direction = "inbound" => messages[i].status = "received"
            /\ messages[i].direction = "outbound" => messages[i].status = "queued")
    /\ [][/\ Len(messages') >= Len(messages)
          /\ \A i \in 1..Len(messages) : messages'[i] = messages[i]]_vars

\* an inbound row and, after it, the row of a reply whose send succeeded and
\* was published: both are as they were written
C37_Witness ==
    \E q \in OutboundIds :
        /\ outb[q].pc = "done" /\ outb[q].result = "ok"
        /\ Len(outb[q].sent) = 1
        /\ outb[q].message_row = 2
        /\ messages[2].direction = "outbound"
        /\ messages[2].status = "queued"
        /\ messages[1].direction = "inbound"
        /\ messages[1].status = "received"
        /\ OutboundEvents(q) # {}

\* the row of a reply whose send failed
C37_FailedSend ==
    \E q \in OutboundIds :
        /\ outb[q].pc = "done" /\ outb[q].result = "err"
        /\ outb[q].message_row \in 1..Len(messages)
        /\ messages[outb[q].message_row].status = "queued"
        /\ \E i \in 1..Len(messages) : messages[i].direction = "inbound"

\* a step of a pipeline, and a step of a subscriber
PipelineStep == inb' # inb \/ outb' # outb
SubscriberStep == ws' # ws

\* the reasons handle_outbound has to return an error
OutboundErrors ==
    {"unknown session", "no route for session", "get_session", "channel adapter",
     "slack token missing", "slack peer missing", "telegram token missing",
     "telegram peer missing", "whatsapp peer missing", "unsupported channel"}

\* the connection is further behind than the channel keeps events
Lagging(c) == ws[c].pc = "open" /\ Len(events) - ws[c].cursor > WS_CAPACITY

\* C38: whoever listens, a call of handle_inbound returns Ok and a call of
\* handle_outbound fails for a reason of its own only; a pipeline step sends
\* its event without touching a subscriber, a subscriber step touches that
\* subscriber only, and a subscriber that fell behind the buffer skips what it
\* missed while a subscriber that kept up was written every event since
C38_PublishNeverBlocks ==
    /\ [](/\ \A p \in InboundIds : inb[p].pc = "done" => inb[p].result = "ok"
          /\ \A q \in OutboundIds :
               outb[q].pc = "done" =>
                 \/ outb[q].result = "ok" /\ OutboundEvents(q) # {}
                 \/ outb[q].result = "err" /\ outb[q].error \in OutboundErrors
          /\ \A c \in DOMAIN ws :
               (ws[c].pc = "open" /\ ws[c].cursor >= WS_CAPACITY /\ ws[c].out # <<>>) =>
                   ws[c].out[Len(ws[c].out)].index = ws[c].cursor)
    /\ [][/\ PipelineStep => ws' = ws
          /\ PipelineStep =>
               /\ Len(events') >= Len(events)
               /\ \A i \in 1..Len(events) : events'[i] = events[i]
          /\ \A q \in OutboundIds :
               (outb[q].pc = "send" /\ outb'[q].pc = "done"
                  /\ Len(outb'[q].sent) = 1 /\ outb'[q].error # "channel adapter") =>
                   /\ outb'[q].result = "ok"
                   /\ Len(events') = Len(events) + 1
          /\ SubscriberStep =>
               /\ UNCHANGED <<sessions, messages, outbox, events, inb, outb>>
               /\ \E c \in DOMAIN ws : \A d \in DOMAIN ws \ {c} : ws'[d] = ws[d]
          /\ \A c \in DOMAIN ws :
               (Lagging(c) /\ ws'[c] # ws[c]) =>
                   /\ ws'[c].cursor = Len(events) - WS_CAPACITY
                   /\ ws'[c].out = ws[c].out
                   /\ ws'[c].pc = "open"]_vars

\* a slow subscriber next to one that kept up: both pipelines returned Ok, the
\* slow one lost the first events of the stream and has moved on, the other
\* was written both new events
C38_Witness ==
    /\ inb[1].pc = "done" /\ inb[1].result = "ok"
    /\ outb[1].pc = "done" /\ outb[1].result = "ok"
    /\ Len(events) = WS_CAPACITY + 2
    /\ ws["c1"].pc = "open"
    /\ ws["c1"].cursor = 2
    /\ ws["c1"].out = <<>>
    /\ Len(ws["c2"].out) = 2
    /\ ws["c2"].out[2].index = Len(events)

\* nobody listens: ws_tx.send returns Err, and both pipelines returned Ok
C38_NoSubscribers ==
    /\ \A c \in DOMAIN ws : ws[c].pc = "none"
    /\ inb[1].pc = "done" /\ inb[1].result = "ok"
    /\ outb[1].pc = "done" /\ outb[1].result = "ok"
    /\ Len(outbox) = 1
    /\ Len(messages) = 2

\* no handle_inbound call is in progress
Quiet == \A p \in InboundIds : inb[p].pc \in {"idle", "done"}

\* the outbox items that forward the stored message row i
ItemsFor(i) ==
    { j \in 1..Len(outbox) :
        /\ outbox[j].payload.session_key = messages[i].session_key
        /\ outbox[j].payload.channel = messages[i].channel
        /\ <<outbox[j].payload.peer_id>> = messages[i].peer_id
        /\ outbox[j].payload.text = messages[i].content }

\* C39: whenever no handle_inbound call is in progress, every stored inbound
\* message row has an outbox item that forwards it, and there are at least as
\* many outbox items as inbound rows
C39_StoredMeansEnqueued ==
    Quiet =>
        /\ \A i \in 1..Len(messages) :
             messages[i].direction = "inbound" => ItemsFor(i) # {}
        /\ Len(outbox) >= Cardinality({ i \in 1..Len(messages) :
                                          messages[i].direction = "inbound" })

\* the call that took the step was at its dedupe check with a row of its key
\* in the store, and went on: the query failed
FailedCheck(p) ==
    /\ inb[p].pc = "dedupe"
    /\ inb'[p].pc \notin {"dedupe", "done"}
    /\ \E i \in 1..Len(messages) :
         /\ messages[i].dedupe_key # <<>>
         /\ messages[i].dedupe_key = DedupeKey(inb[p].msg)

\* C40: a dedupe query that fails is taken for "not seen": the call goes on
\* to insert_message with nothing written, no call ever returns an error, and
\* every call that did not return at its dedupe check has stored a row,
\* enqueued an item and published an event of its own
C40_FailedCheckGoesOn ==
    /\ [](\A p \in InboundIds :
            inb[p].pc = "done" =>
                /\ inb[p].result = "ok"
                /\ inb[p].outbox_row = 0 => RowsOf(inb[p].msg) # {})
    /\ [](Len(outbox) = Len(messages) - Cardinality({ p \in InboundIds :
                                                        inb[p].pc = "insert_outbox" })
          /\ Len(events) = Len(outbox))
    /\ [][\A p \in InboundIds :
            (inb[p].pc = "dedupe" /\ inb'[p] # inb[p]) =>
                /\ StoreUnchanged
                /\ inb'[p].result # "err"
                /\ inb'[p].pc \in {"done", "insert_message"}
                /\ FailedCheck(p) => inb'[p].pc = "insert_message"]_vars

\* the same platform message was handed in twice, one call after the other;
\* the second call's dedupe query failed, and it stored a second row, enqueued
\* a second item, published a second event and returned Ok
C40_Witness ==
    /\ inb[1].pc = "done" /\ inb[2].pc = "done"
    /\ inb[1].msg = inb[2].msg
    /\ inb[1].msg.message_id # <<>>
    /\ inb[2].result = "ok"
    /\ inb[1].outbox_row = 1 /\ inb[2].outbox_row = 2
    /\ Cardinality(RowsOf(inb[1].msg)) = 2
    /\ Len(events) = 2

====
